---- MODULE Spec2Model ----
(***************************************************************************)
(* A model of the Skillz Market SDK (skillzmarket/sdk).                    *)
(*                                                                         *)
(*   Part 1  creator side   serve(): the routing shell of src/creator/     *)
(*                          serve.ts behind the x402 payment gate that     *)
(*                          src/creator/payment.ts installs.               *)
(*   Part 2  consumer side  createPaymentFetch() of src/payment.ts.        *)
(*   Part 3  registry       register() of src/creator/register.ts:         *)
(*                          parallelLimit and registerSkillWithRetry.      *)
(*   Part 4  registry       the price parser of src/creator/utils/price.ts *)
(*                          and updateSkill().                             *)
(*   Part 5  both sides     authenticate(), refreshAccessToken() and the   *)
(*                          constructor of SkillzMarket.                   *)
(*   Part 6  registry       where register() and updateSkill() send the    *)
(*                          API key.                                       *)
(*   Part 7  creator side   resolveWalletToAddress(), parsePrice() and     *)
(*                          skill(), and the route table built from them.  *)
(*   Part 8  creator side   what serve() and init() print.                 *)
(*   Part 9  both sides     SkillzMarket.call() and the usage reports.     *)
(*   Part 10 registry       further properties of register().              *)
(*   Part 11 creator side   the usage reports of the skill server.         *)
(*   Part 12 creator side   the startup of serve() and its                 *)
(*                          auto-registration.                             *)
(*   Part 13 consumer side  SkillzMarket.feedback().                       *)
(*                                                                         *)
(* The x402 packages (@x402/hono, @x402/fetch) are dependencies whose code *)
(* is not part of the repository; their behaviour is modelled from         *)
(* sections 4.3 and 4.4 of the specification.                              *)
(***************************************************************************)
EXTENDS Integers, Sequences, FiniteSets, TLC

VARIABLES
    \* ---- Part 1: serve() ----
    skills,         \* SkillsMap: name -> [amount, timeout, description]
    walletAddress,  \* serve.ts:56  resolveWalletToAddress(wallet)
    network,        \* serve.ts:39  options.network
    onCall,         \* serve.ts:42  "none" | "ok" | "throws"
    onError,        \* serve.ts:43  "none" | "ok" | "throws"
    trackCalls,     \* serve.ts:45
    nodeEnv,        \* process.env.NODE_ENV
    req,            \* the requests being served: slot -> request record
    \* ---- Part 2: createPaymentFetch() ----
    pf,             \* one call through the payment-gated fetch
    \* ---- Part 3: register() ----
    reg,            \* the options and overall state of one register() call
    index,          \* register.ts:312  the shared index counter
    results,        \* register.ts:311  the results array
    workers,        \* register.ts:324  worker -> its position in the code
    sk,             \* per input skill: what happened to its registration
    \* ---- Part 4: updateSkill() ----
    upd,            \* one updateSkill() call
    \* ---- Part 5: authenticate() ----
    au,             \* one authentication flow
    \* ---- Part 7: definition-time functions ----
    fn,             \* one call of resolveWalletToAddress(), parsePrice() or skill()
    \* ---- Part 8: user-facing output ----
    out,            \* one run of init() or of the startup of serve(), with what it printed
    \* ---- Part 9: SkillzMarket.call() ----
    cl,             \* one call of a skill by the consumer's client
    \* ---- Part 12: the startup of serve() ----
    srv,            \* one call of serve(): its options and how far it has come
    \* ---- Part 13: SkillzMarket.feedback() ----
    fb              \* one client and the feedback() calls running on it

serveVars == <<skills, walletAddress, network, onCall, onError, trackCalls, nodeEnv, req>>
fetchVars == <<pf>>
regVars   == <<reg, index, results, workers, sk>>
updVars   == <<upd>>
authVars  == <<au>>
fnVars    == <<fn>>
outVars   == <<out>>
callVars  == <<cl>>
startVars == <<srv, fb>>
vars      == <<serveVars, fetchVars, regVars, updVars, authVars, fnVars, outVars, callVars,
               startVars>>

\* What the actions of one part leave alone.
restOfServe    == <<fetchVars, regVars, updVars, authVars, fnVars, outVars, callVars, startVars>>
restOfFetch    == <<serveVars, regVars, updVars, authVars, fnVars, outVars, callVars, startVars>>
restOfRegister == <<serveVars, fetchVars, updVars, authVars, fnVars, outVars, callVars, startVars>>
restOfUpdate   == <<serveVars, fetchVars, regVars, authVars, fnVars, outVars, callVars, startVars>>
restOfAuth     == <<serveVars, fetchVars, regVars, updVars, fnVars, outVars, callVars, startVars>>
restOfFn       == <<serveVars, fetchVars, regVars, updVars, authVars, outVars, callVars, startVars>>
restOfOut      == <<serveVars, fetchVars, regVars, updVars, authVars, fnVars, callVars, startVars>>
restOfCall     == <<serveVars, fetchVars, regVars, updVars, authVars, fnVars, outVars, startVars>>

(***************************************************************************)
(* Bounds of the model.                                                    *)
(***************************************************************************)
MaxReq == 2        \* request slots served concurrently
MaxSkills == 3     \* skills passed to one register() call
MaxPriceLen == 3   \* length of the price strings enumerated for parsePrice()

None == "none"

(***************************************************************************)
(* Part 1.  serve()                                                        *)
(***************************************************************************)
Amounts    == {"0.001", "0.005"}
Wallets    == {"0xAAA", "0xBBB"}
Networks   == {"eip155:8453", "eip155:84532"}
ReqIds     == 1..MaxReq

\* The requests a client may send, <<method, path>>, and what each carries: a payment
\* proof (absent, one the facilitator accepts, one it rejects) and, on an unpaid
\* request, the X-Skip-Payment header.
Targets == { <<"GET", "/health">>, <<"POST", "/echo">>, <<"POST", "/upper">>,
             <<"GET", "/echo">> }
Proofs == {None, "valid", "invalid"}
RequestKinds ==
    { k \in [target : Targets, proof : Proofs, skip : BOOLEAN] :
        /\ (k.skip => k.proof = None)
        /\ (k.target[1] = "GET" => k.proof = None /\ ~k.skip) }

\* utils/price.ts:70  formatPriceForX402
formatPriceForX402(parsedAmount) == "$" \o parsedAmount

\* A JavaScript value where a number of milliseconds or seconds is expected: a number,
\* which may be NaN, or a value of another type.
Ms(v) == [type |-> "number", nan |-> FALSE, v |-> v]
NaNMs == [type |-> "number", nan |-> TRUE, v |-> 0]

\* payment.ts:23  Math.ceil(ms / 1000), NaN for NaN
CeilDiv1000(ms) == IF ms.nan THEN NaNMs ELSE Ms((ms.v + 999) \div 1000)

\* payment.ts:25  description ?? `${name} skill`
RouteDescription(name, description) ==
    IF description = None THEN name \o " skill" ELSE description

\* The skill routes registered under a prefix the protected routes do not have.
RoutePath_Prefixed(name) == "/skills/" \o name

\* serve.ts:85  app.post(`/${name}`, ...)
RoutePath(name) == "/" \o name

\* payment.ts:16  the key of a protected route, `POST /${name}`, as <<method, path>>
RouteKey(name) == <<"POST", "/" \o name>>

\* buildProtectedRoutes with the route key built as `POST ${name}`, without the slash.
buildProtectedRoutes_NoSlash(sks, wallet, net) ==
    [ k \in { <<"POST", n>> : n \in DOMAIN sks } |->
        [ scheme            |-> "exact",
          price             |-> formatPriceForX402(sks[k[2]].amount),
          network           |-> net,
          payTo             |-> wallet,
          maxTimeoutSeconds |-> CeilDiv1000(sks[k[2]].timeout),
          description       |-> RouteDescription(k[2], sks[k[2]].description) ] ]

\* payment.ts:8-30  buildProtectedRoutes: one entry per skill.
buildProtectedRoutes(sks, wallet, net) ==
    [ k \in { RouteKey(n) : n \in DOMAIN sks } |->
        LET n == CHOOSE m \in DOMAIN sks : RouteKey(m) = k IN
        [ scheme            |-> "exact",
          price             |-> formatPriceForX402(sks[n].amount),
          network           |-> net,
          payTo             |-> wallet,
          maxTimeoutSeconds |-> CeilDiv1000(sks[n].timeout),
          description       |-> RouteDescription(n, sks[n].description) ] ]

\* Section 4.4 of the specification, the gate's decision for an inbound request:
\* a route that is not priced passes; a priced route without a payment header is
\* answered 402; a priced route with a header goes to the facilitator.
x402Decide(routes, r) ==
    IF r.target \notin DOMAIN routes THEN "next"
    ELSE IF r.proof = None THEN "pay402"
    ELSE "verify"

\* createPaymentMiddleware choosing a development gate that lets a request carrying
\* X-Skip-Payment through without payment.
createPaymentMiddleware_Dev(r) ==
    IF r.skip THEN "next"
    ELSE x402Decide(buildProtectedRoutes(skills, walletAddress, network), r)

\* payment.ts:60-81 with serve.ts:68-73: the middleware serve() installs on '*' is
\* the production x402 middleware over the protected routes, and nothing else.
createPaymentMiddleware(r) ==
    x402Decide(buildProtectedRoutes(skills, walletAddress, network), r)

NoBody == [kind |-> None]

FreeReq ==
    [ pc |-> "free", target |-> <<"GET", "/health">>, proof |-> None, skip |-> FALSE,
      verified |-> FALSE, calls |-> 0, onCallN |-> 0, onErrorN |-> 0,
      status |-> 0, body |-> NoBody, settled |-> FALSE, reports |-> 0, report |-> NoBody,
      thrown |-> None, onCallArg |-> NoBody, onErrorArg |-> NoBody, analytics |-> None ]

ServeFrame == UNCHANGED <<skills, walletAddress, network, onCall, onError, trackCalls, nodeEnv>>

\* A request reaches the server and takes the first free slot.
Arrive(i) ==
    /\ req[i].pc = "free"
    /\ \A j \in ReqIds : j < i => req[j].pc # "free"
    /\ \E k \in RequestKinds :
          req' = [req EXCEPT ![i] =
             [FreeReq EXCEPT !.pc = "arrived", !.target = k.target, !.proof = k.proof,
                             !.skip = k.skip]]
    /\ ServeFrame
    /\ UNCHANGED restOfServe

\* serve.ts:73  app.use('*', paymentMiddleware): every request meets the gate before
\* any route. Section 4.4: Unpaid -> 402 with the route's requirements; Proof Present
\* -> the facilitator verifies, and a failed verification is answered 402; Verified ->
\* next().
Gate(i) ==
    /\ req[i].pc = "arrived"
    /\ LET r == req[i]
           d == createPaymentMiddleware(r)
           routes == buildProtectedRoutes(skills, walletAddress, network) IN
       req' = [req EXCEPT ![i] =
          CASE d = "next" -> [r EXCEPT !.pc = "routing"]
            [] d = "pay402" ->
                 [r EXCEPT !.pc = "done", !.status = 402,
                           !.body = [kind |-> "paymentRequired", accepts |-> routes[r.target]]]
            [] d = "verify" /\ r.proof = "valid" ->
                 [r EXCEPT !.pc = "routing", !.verified = TRUE]
            [] OTHER ->
                 [r EXCEPT !.pc = "done", !.status = 402,
                           !.body = [kind |-> "paymentRejected", accepts |-> routes[r.target]]]]
    /\ ServeFrame
    /\ UNCHANGED restOfServe

\* The skill whose route serve.ts:84-85 registered for this target, or None.
RoutedSkill(t) ==
    IF \E n \in DOMAIN skills : t = <<"POST", RoutePath(n)>>
    THEN CHOOSE n \in DOMAIN skills : t = <<"POST", RoutePath(n)>>
    ELSE None

\* A health answer that lists no skill.
HealthBody_NoSkills == [kind |-> "health", status |-> "ok", skills |-> {}]

\* serve.ts:76-81: the answer of the health route.
HealthBody == [kind |-> "health", status |-> "ok", skills |-> DOMAIN skills]

\* An observer callback whose exception is not caught around the call.
ObserverEscapes_Uncaught(cb) == cb = "throws"

\* serve.ts:111-115 and 162-166: the observer is called inside try/catch with an
\* empty catch, so its exception never leaves the route handler.
ObserverEscapes(cb) == FALSE

\* What the framework answers when a route handler itself throws.
FrameworkError == [kind |-> "frameworkError"]

\* serve.ts:76-81 and 84-119: the router. GET /health answers at once; POST /<name>
\* enters the skill's route handler, which reads the body, calls onCall (its
\* exception is swallowed) and invokes the skill handler; anything else is a 404.
Route(i) ==
    /\ req[i].pc = "routing"
    /\ LET r == req[i]
           n == RoutedSkill(r.target) IN
       req' = [req EXCEPT ![i] =
          IF r.target = <<"GET", "/health">>
          THEN [r EXCEPT !.pc = "done", !.status = 200, !.body = HealthBody]
          ELSE IF n # None
          THEN IF onCall # None /\ ObserverEscapes(onCall)
               THEN [r EXCEPT !.pc = IF r.verified THEN "settling" ELSE "done",
                              !.onCallN = @ + 1, !.onCallArg = [name |-> n],
                              !.status = 500, !.body = FrameworkError]
               ELSE [r EXCEPT !.pc = "handling",
                              !.onCallN = IF onCall # None THEN @ + 1 ELSE @,
                              !.onCallArg = IF onCall # None THEN [name |-> n] ELSE @,
                              !.calls = @ + 1]
          ELSE [r EXCEPT !.pc = "done", !.status = 404, !.body = [kind |-> "notFound"]]]
    /\ ServeFrame
    /\ UNCHANGED restOfServe

\* The error message passed on whatever the environment.
ErrorMsg_Unmasked(message) == message

\* serve.ts:170-172
ErrorMsg(message) == IF nodeEnv = "production" THEN "Internal server error" ELSE message

\* What a skill handler may throw: the messages of its exceptions.
HandlerErrors == {"boom", "db password is hunter2"}

\* The catch branch without the catch: the exception leaves the route handler, the
\* framework answers and onError is not called.
HandlerThrew_Uncaught(r, n, message) ==
    [r EXCEPT !.status = 500, !.thrown = message, !.body = FrameworkError]

\* serve.ts:157-181: the catch branch. onError, when given, is called once with the
\* skill name and the error (its own exception is swallowed), and the answer is
\* the 500 envelope {success: false, error, timestamp}.
HandlerThrew(r, n, message) ==
    IF onError # None /\ ObserverEscapes(onError)
    THEN [r EXCEPT !.status = 500, !.thrown = message,
                   !.onErrorN = @ + 1,
                   !.onErrorArg = [name |-> n, message |-> message],
                   !.body = FrameworkError]
    ELSE [r EXCEPT !.status = 500, !.thrown = message,
                   !.onErrorN = IF onError # None THEN @ + 1 ELSE @,
                   !.onErrorArg = IF onError # None
                                  THEN [name |-> n, message |-> message] ELSE @,
                   !.body = [kind |-> "error", success |-> FALSE,
                             error |-> ErrorMsg(message), timestamp |-> "now"]]

\* serve.ts:119-182: the skill handler settles. On success the response is built and,
\* with trackCalls, one usage report is sent without being awaited (the fresh response
\* carries no PAYMENT-RESPONSE header at that point); on an exception onError is
\* called (its exception is swallowed) and the response is a 500.
HandlerReturn(i) ==
    /\ req[i].pc = "handling"
    /\ LET r == req[i]
           n == RoutedSkill(r.target)
           after == IF r.verified THEN "settling" ELSE "done" IN
       \E outcome \in {"ok"} \cup HandlerErrors :
          req' = [req EXCEPT ![i] =
             IF outcome = "ok"
             THEN [r EXCEPT !.pc = after, !.status = 200,
                            !.body = [kind |-> "result", success |-> TRUE,
                                      timestamp |-> "now"],
                            !.reports = IF trackCalls THEN @ + 1 ELSE @,
                            !.analytics = IF trackCalls THEN "pending" ELSE @,
                            !.report = IF trackCalls
                                       THEN [kind |-> "usage", skillSlug |-> n,
                                             paymentTxHash |-> None,
                                             amount |-> skills[n].amount]
                                       ELSE @]
             ELSE [HandlerThrew(r, n, outcome) EXCEPT !.pc = after]]
    /\ ServeFrame
    /\ UNCHANGED restOfServe

\* The usage report awaited without a catch: its failure becomes the failure of the
\* request.
AnalyticsDone_Propagates(r, outcome) ==
    IF outcome = "failed"
    THEN [r EXCEPT !.analytics = outcome, !.status = 500, !.body = FrameworkError]
    ELSE [r EXCEPT !.analytics = outcome]

\* serve.ts:144-153: fetch(...).catch(() => {}) is not awaited: when the request to
\* /analytics/usage settles, its answer is dropped and its rejection swallowed.
AnalyticsDone(r, outcome) == [r EXCEPT !.analytics = outcome]

\* The usage report of request i is answered by the registry, or fails. A report that
\* never completes is one for which this does not happen.
AnalyticsSettle(i) ==
    /\ req[i].analytics = "pending"
    /\ \E outcome \in {"ok", "failed"} :
          req' = [req EXCEPT ![i] = AnalyticsDone(req[i], outcome)]
    /\ ServeFrame
    /\ UNCHANGED restOfServe

\* Section 4.4, Verified: after the handler the gate settles the payment with the
\* facilitator; a successful settlement adds the PAYMENT-RESPONSE header. A response
\* that is an error is returned as it is, and a failed settlement is answered 402.
Settle(i) ==
    /\ req[i].pc = "settling"
    /\ LET r == req[i] IN
       \E ok \in BOOLEAN :
          req' = [req EXCEPT ![i] =
             IF r.status >= 400 THEN [r EXCEPT !.pc = "done"]
             ELSE IF ok THEN [r EXCEPT !.pc = "done", !.settled = TRUE]
             ELSE [r EXCEPT !.pc = "done", !.status = 402,
                            !.body = [kind |-> "settlementFailed"]]]
    /\ ServeFrame
    /\ UNCHANGED restOfServe

\* The response has been sent; the slot serves the next request.
Retire(i) ==
    /\ req[i].pc = "done"
    /\ req' = [req EXCEPT ![i] = FreeReq]
    /\ ServeFrame
    /\ UNCHANGED restOfServe

\* The deployments explored: one or two skills with their prices, a wallet, a network.
SkillDef(amount) == [amount |-> amount, timeout |-> Ms(60000), description |-> None]
SkillDefs ==
    { [n \in {"echo"} |-> SkillDef("0.001")],
      [n \in {"echo", "upper"} |-> IF n = "echo" THEN SkillDef("0.001") ELSE SkillDef("0.005")],
      [n \in {"echo", "upper"} |-> IF n = "echo" THEN SkillDef("0.005") ELSE SkillDef("0.001")] }

ServeInit ==
    /\ skills \in SkillDefs
    /\ walletAddress \in Wallets
    /\ network \in Networks
    /\ onCall = None
    /\ onError = None
    /\ trackCalls = TRUE
    /\ nodeEnv = "development"
    /\ req = [i \in ReqIds |-> FreeReq]

FetchIdle == pf = [pc |-> "idle"]

RegIdle ==
    /\ reg = [pc |-> "idle"]
    /\ index = 0
    /\ results = <<>>
    /\ workers = <<>>
    /\ sk = <<>>

UpdIdle == upd = [pc |-> "idle"]

AuthIdle == au = [pc |-> "idle"]

FnIdle == fn = [pc |-> "idle"]

OutIdle == out = [pc |-> "idle"]

CallIdle == cl = [pc |-> "idle"]

StartIdle == srv = [pc |-> "idle"]

FbIdle == fb = [pc |-> "idle"]

InitServe ==
    ServeInit /\ FetchIdle /\ RegIdle /\ UpdIdle /\ AuthIdle /\ FnIdle /\ OutIdle /\ CallIdle /\ StartIdle /\ FbIdle

NextServe ==
    \E i \in ReqIds :
        \/ Arrive(i)
        \/ Gate(i)
        \/ Route(i)
        \/ HandlerReturn(i)
        \/ Settle(i)
        \/ Retire(i)

SpecServe == InitServe /\ [][NextServe]_vars

(***************************************************************************)
(* Claims about the payment gate of serve().                               *)
(***************************************************************************)
PastGate(r) == r.pc \notin {"free", "arrived"}

\* C1: for every served skill, a POST /<name> request without a payment header is
\* answered 402 with the price, network and payTo of that skill's route, and the
\* skill handler is not invoked for it.
C1_UnpaidAnswered402 ==
    \A i \in ReqIds : \A n \in DOMAIN skills :
        LET r == req[i] IN
        (r.target = <<"POST", "/" \o n>> /\ r.proof = None) =>
            /\ r.calls = 0
            /\ PastGate(r) =>
                  /\ r.pc = "done"
                  /\ r.status = 402
                  /\ r.body.kind = "paymentRequired"
                  /\ r.body.accepts.price = "$" \o skills[n].amount
                  /\ r.body.accepts.network = network
                  /\ r.body.accepts.payTo = walletAddress

\* An unpaid POST /upper has been answered 402 on a server whose two skills have
\* different prices.
C1_Witness ==
    \E i \in ReqIds :
        /\ DOMAIN skills = {"echo", "upper"}
        /\ req[i].target = <<"POST", "/upper">>
        /\ req[i].proof = None
        /\ req[i].pc = "done"
        /\ req[i].status = 402
        /\ req[i].body.accepts.price = "$0.005"

C3_ForwardedExactlyOnce ==
    \A i \in ReqIds : \A n \in DOMAIN skills :
        LET r == req[i] IN
        /\ r.calls <= 1
        /\ (r.target = <<"POST", "/" \o n>> /\ r.proof = "valid"
              /\ r.pc \in {"handling", "settling", "done"}) => r.calls = 1

\* A paid request has been answered 200 after its payment was settled.
C3_Witness ==
    \E i \in ReqIds :
        /\ req[i].proof = "valid"
        /\ req[i].pc = "done"
        /\ req[i].status = 200
        /\ req[i].settled
        /\ req[i].calls = 1

(***************************************************************************)
(* The routing shell with observers: serve() with onCall and onError       *)
(* given, absent or throwing, and NODE_ENV production, development or      *)
(* unset.                                                                  *)
(***************************************************************************)
Observers == { <<None, None>>, <<"ok", "ok">>, <<"throws", "throws">> }
NodeEnvs == {"production", "development", None}

InitShell ==
    /\ skills = [n \in {"echo", "upper"} |->
                    IF n = "echo" THEN SkillDef("0.001") ELSE SkillDef("0.005")]
    /\ walletAddress = "0xAAA"
    /\ network = "eip155:8453"
    /\ \E o \in Observers : onCall = o[1] /\ onError = o[2]
    /\ trackCalls = TRUE
    /\ nodeEnv \in NodeEnvs
    /\ req = [i \in ReqIds |-> FreeReq]
    /\ FetchIdle /\ RegIdle /\ UpdIdle /\ AuthIdle
    /\ FnIdle /\ OutIdle /\ CallIdle /\ StartIdle /\ FbIdle

SpecShell == InitShell /\ [][NextServe]_vars

\* The route handler of a skill has answered (the gate may still settle).
Answered(r) == r.calls = 1 /\ r.pc \in {"settling", "done"}

\* The 500 envelope and the onError call of a request whose handler threw.
C16_FailureEnvelope ==
    \A i \in ReqIds :
        LET r == req[i] IN
        (r.thrown # None) =>
            /\ Answered(r)
            /\ r.status = 500
            /\ r.body.kind = "error"
            /\ r.body.success = FALSE
            /\ DOMAIN r.body = {"kind", "success", "error", "timestamp"}
            /\ IF onError = None
               THEN r.onErrorN = 0
               ELSE /\ r.onErrorN = 1
                    /\ r.onErrorArg = [name |-> RoutedSkill(r.target), message |-> r.thrown]

\* A handler failure touches nothing but its own request: the configuration of the
\* server and every other request stay as they are, and the slot of the failed
\* request is handed back empty.
C16_FailureStep ==
    /\ UNCHANGED <<skills, walletAddress, network, onCall, onError, trackCalls, nodeEnv>>
    /\ \A i \in ReqIds :
          /\ (req[i].thrown = None /\ req'[i].thrown # None) =>
                \A j \in ReqIds \ {i} : req'[j] = req[j]
          /\ (req[i].thrown # None /\ req'[i] # req[i]) =>
                \/ req'[i] = FreeReq
                \/ req'[i] = [req[i] EXCEPT !.pc = "done"]

\* C16: when a skill handler throws, the request is answered 500 with
\* {success: false, error, timestamp}, onError is called once with the skill name
\* and the error, and the server keeps serving: the failure changes nothing that a
\* later request depends on.
C16_HandlerFailureContained == []C16_FailureEnvelope /\ [][C16_FailureStep]_vars

\* A request whose handler threw was answered 500 with onError called once, and
\* another request on the same server was answered 200.
C16_Witness ==
    \E i, j \in ReqIds :
        /\ req[i].thrown = "boom" /\ req[i].pc = "done" /\ req[i].status = 500
        /\ onError = "ok" /\ req[i].onErrorN = 1
        /\ req[i].onErrorArg = [name |-> "echo", message |-> "boom"]
        /\ req[j].pc = "done" /\ req[j].status = 200 /\ req[j].body.kind = "result"

\* C17: an exception thrown by onCall or onError never affects the response: status
\* and body are what they are without the callback, and the handler is still
\* invoked after a throwing onCall.
C17_ObserversNeverAffectResponse ==
    \A i \in ReqIds :
        LET r == req[i] IN
        (RoutedSkill(r.target) # None /\ r.verified
           /\ r.pc \in {"handling", "settling", "done"}) =>
            /\ r.calls = 1
            /\ (onCall # None) => r.onCallN = 1
            /\ (r.pc # "handling") =>
                  IF r.thrown = None
                  THEN \/ r.status = 200 /\ r.body = [kind |-> "result", success |-> TRUE,
                                                       timestamp |-> "now"]
                       \/ r.pc = "done" /\ r.status = 402
                            /\ r.body = [kind |-> "settlementFailed"]
                  ELSE /\ r.status = 500
                       /\ r.body = [kind |-> "error", success |-> FALSE,
                                    error |-> IF nodeEnv = "production"
                                              THEN "Internal server error" ELSE r.thrown,
                                    timestamp |-> "now"]

\* With both observers throwing, one request was answered 200 and another 500 with
\* the handler's message.
C17_Witness ==
    \E i, j \in ReqIds :
        /\ onCall = "throws" /\ onError = "throws" /\ nodeEnv = "development"
        /\ req[i].pc = "done" /\ req[i].onCallN = 1 /\ req[i].calls = 1
        /\ req[i].status = 200
        /\ req[j].pc = "done" /\ req[j].onCallN = 1 /\ req[j].onErrorN = 1
        /\ req[j].status = 500 /\ req[j].body.error = "boom"

\* C18: in production the 500 answer of a failed handler carries the same generic
\* error string for any two exceptions, while onError receives the original error;
\* outside production the error field is the exception's message.
C18_ProductionMasksError ==
    \A i, j \in ReqIds :
        LET r == req[i]
            q == req[j] IN
        (r.thrown # None) =>
            /\ (nodeEnv = "production" /\ q.thrown # None) => r.body.error = q.body.error
            /\ (nodeEnv = "production") => r.body.error \notin HandlerErrors
            /\ (nodeEnv # "production") => r.body.error = r.thrown
            /\ (onError # None) => r.onErrorArg.message = r.thrown

\* In production two handlers threw different errors; both answers carry the same
\* string and onError received each original message.
C18_Witness ==
    \E i, j \in ReqIds :
        /\ nodeEnv = "production" /\ onError = "ok"
        /\ req[i].thrown = "boom" /\ req[j].thrown = "db password is hunter2"
        /\ req[i].body.error = req[j].body.error
        /\ req[i].onErrorArg.message = "boom"
        /\ req[j].onErrorArg.message = "db password is hunter2"

\* C19: GET /health, sent without a payment header, is always answered 200 with
\* status "ok" and the names of all served skills; it is never answered 402, and
\* the answer does not depend on the other requests.
C19_HealthAlwaysOk ==
    \A i \in ReqIds :
        LET r == req[i] IN
        (r.target = <<"GET", "/health">> /\ r.proof = None /\ PastGate(r)) =>
            /\ r.status # 402
            /\ r.calls = 0
            /\ r.pc \in {"routing", "done"}
            /\ (r.pc = "done") =>
                  /\ r.status = 200
                  /\ r.body = [kind |-> "health", status |-> "ok", skills |-> DOMAIN skills]

\* Health was answered 200 with both skill names next to a request that was
\* answered 402.
C19_Witness ==
    \E i, j \in ReqIds :
        /\ req[i].target = <<"GET", "/health">> /\ req[i].pc = "done"
        /\ req[i].status = 200 /\ req[i].body.skills = {"echo", "upper"}
        /\ req[j].pc = "done" /\ req[j].status = 402
(***************************************************************************)
(* Part 2.  createPaymentFetch(): the consumer's payment-gated fetch       *)
(***************************************************************************)
\* payment.ts:10
DEFAULT_NETWORK == "eip155:8453"

\* The networks a server may offer in a 402 response.
OfferedNetworks == Networks \cup {"solana:mainnet"}

\* The statuses a skill server answers with.
Statuses == {200, 402, 404, 500}

\* createPaymentFetch registering its scheme for every network on offer.
createPaymentFetch_AnyNetwork(net) == OfferedNetworks

\* payment.ts:52-66  createPaymentFetch: the wrapper is configured with one scheme,
\* for the configured network. The result is the set of networks with a scheme.
createPaymentFetch(net) == {net}

\* The wrapper paying for every 402 it sees, the retry's included.
PaysFor_Every402(status, sent) == status = 402

\* The wrapper paying for every response that is not ok.
PaysFor_NotOk(status, sent) == status >= 400 /\ sent = 1

\* Section 4.3: payment is constructed for a 402 answer to the original request, and
\* the response of the single retry is returned without further retries.
PaysFor(status, sent) == status = 402 /\ sent = 1

PfIdle == [pc |-> "idle"]

\* client.ts:88-92: the caller's request carries Content-Type and no payment header.
\* The wrapped fetch issues the original request first.
PfCall ==
    /\ pf.pc = "idle"
    /\ \E net \in Networks :
          pf' = [ pc |-> "sent", network |-> net, schemes |-> createPaymentFetch(net),
                  requests |-> << [payment |-> FALSE] >>, responses |-> <<>>,
                  offers |-> {}, signCalls |-> 0, result |-> NoBody ]
    /\ UNCHANGED restOfFetch

\* The responses a skill server may give: a status and, with a 402, the networks of
\* the payment requirements it offers.
Responses ==
    { rs \in [status : Statuses, offers : SUBSET OfferedNetworks] :
        rs.status # 402 => rs.offers = {} }

\* A response arrives (or the transport fails). A response that is not paid for is
\* returned as it is.
PfResponse ==
    /\ pf.pc = "sent"
    /\ \/ \E rs \in Responses :
            pf' = IF PaysFor(rs.status, Len(pf.requests))
                  THEN [pf EXCEPT !.pc = "got402", !.responses = Append(@, rs),
                                  !.offers = rs.offers]
                  ELSE [pf EXCEPT !.pc = "done", !.responses = Append(@, rs),
                                  !.result = [kind |-> "response", response |-> rs]]
       \/ pf' = [pf EXCEPT !.pc = "failed", !.result = [kind |-> "TransportError"]]
    /\ UNCHANGED restOfFetch

\* The wrapper selects the offered requirement whose network has a registered
\* scheme; without one the call fails.
PfSelect ==
    /\ pf.pc = "got402"
    /\ pf' = IF pf.offers \cap pf.schemes = {}
             THEN [pf EXCEPT !.pc = "failed", !.result = [kind |-> "NoMatchingScheme"]]
             ELSE [pf EXCEPT !.pc = "signing"]
    /\ UNCHANGED restOfFetch

\* payment.ts:29-42: the signer signs the payment authorization; a signer failure
\* fails the call, and a signature goes out as the header of the retried request.
PfSign ==
    /\ pf.pc = "signing"
    /\ \E ok \in BOOLEAN :
          pf' = IF ok
                THEN [pf EXCEPT !.pc = "sent", !.signCalls = @ + 1,
                                !.requests = Append(@, [payment |-> TRUE])]
                ELSE [pf EXCEPT !.pc = "failed", !.signCalls = @ + 1,
                                !.result = [kind |-> "PaymentFailed"]]
    /\ UNCHANGED restOfFetch

\* The call has returned or thrown; the next call starts afresh.
PfReset ==
    /\ pf.pc \in {"done", "failed"}
    /\ pf' = PfIdle
    /\ UNCHANGED restOfFetch

ServeIdle ==
    /\ skills = [n \in {"echo"} |-> SkillDef("0.001")]
    /\ walletAddress = "0xAAA"
    /\ network = "eip155:8453"
    /\ onCall = None
    /\ onError = None
    /\ trackCalls = TRUE
    /\ nodeEnv = "development"
    /\ req = <<>>

InitFetch ==
    /\ pf = PfIdle
    /\ ServeIdle /\ RegIdle /\ UpdIdle /\ AuthIdle
    /\ FnIdle /\ OutIdle /\ CallIdle /\ StartIdle /\ FbIdle

NextFetch == PfCall \/ PfResponse \/ PfSelect \/ PfSign \/ PfReset

SpecFetch == InitFetch /\ [][NextFetch]_vars

(***************************************************************************)
(* Claims about the payment-gated fetch.                                   *)
(***************************************************************************)
PfActive == pf.pc # "idle"

\* C4: one call issues at most two HTTP requests, the original one and, only after
\* its response was seen to be 402, one retry carrying the payment header; the
\* retry's response is returned whatever its status; the signer is invoked at most
\* once and never before the 402 was seen.
C4_AtMostOneRetry ==
    PfActive =>
        /\ Len(pf.requests) <= 2
        /\ ~pf.requests[1].payment
        /\ Len(pf.requests) = 2 =>
              /\ Len(pf.responses) >= 1 /\ pf.responses[1].status = 402
              /\ pf.requests[2].payment
              /\ pf.signCalls = 1
        /\ pf.signCalls <= 1
        /\ pf.signCalls = 1 => Len(pf.responses) >= 1 /\ pf.responses[1].status = 402
        /\ (Len(pf.responses) = 2 /\ pf.pc # "failed") =>
              /\ pf.pc = "done"
              /\ pf.result = [kind |-> "response", response |-> pf.responses[2]]

\* The retry was answered 402 again and that response was returned.
C4_Witness ==
    /\ PfActive
    /\ pf.pc = "done"
    /\ Len(pf.requests) = 2
    /\ pf.responses[1].status = 402
    /\ pf.responses[2].status = 402
    /\ pf.result.response = pf.responses[2]

\* C5: when the first response has a status other than 402 it is returned unchanged
\* after exactly one request, with nothing signed and no payment header sent.
C5_Non402Returned ==
    (PfActive /\ Len(pf.responses) >= 1 /\ pf.responses[1].status # 402) =>
        /\ pf.pc = "done"
        /\ pf.result = [kind |-> "response", response |-> pf.responses[1]]
        /\ Len(pf.requests) = 1
        /\ ~pf.requests[1].payment
        /\ pf.signCalls = 0

\* A 500 answer to the original request was returned.
C5_Witness ==
    /\ PfActive
    /\ pf.pc = "done"
    /\ Len(pf.responses) = 1
    /\ pf.responses[1].status = 500
    /\ pf.result.response.status = 500

\* C6: when a 402 response offers only schemes for networks other than the
\* configured one, the call fails with NoMatchingScheme, nothing is signed and no
\* retry is sent.
C6_NoMatchingScheme ==
    (PfActive /\ Len(pf.responses) >= 1 /\ pf.responses[1].status = 402
       /\ pf.network \notin pf.responses[1].offers /\ pf.pc # "got402") =>
        /\ pf.pc = "failed"
        /\ pf.result.kind = "NoMatchingScheme"
        /\ pf.signCalls = 0
        /\ Len(pf.requests) = 1

\* A 402 that offered two other networks ended in NoMatchingScheme.
C6_Witness ==
    /\ PfActive
    /\ pf.pc = "failed"
    /\ pf.result.kind = "NoMatchingScheme"
    /\ pf.network = "eip155:8453"
    /\ pf.responses[1].offers = {"eip155:84532", "solana:mainnet"}
(***************************************************************************)
(* Part 3.  register(): parallelLimit and registerSkillWithRetry           *)
(***************************************************************************)
\* register.ts:247
MAX_RETRIES == 3
\* register.ts:248
BASE_DELAY_MS == 1000
\* register.ts:249
DEFAULT_CONCURRENCY == 5

Modes == {"throw", "warn", "silent"}

\* batch.concurrency as the caller may give it: absent (<<>>), or a number (<<k>>).
Limits == {<<>>, <<-1>>, <<0>>, <<1>>, <<2>>}

\* A registry answer to POST /skills: an HTTP status and whether the response has a
\* body stream (a response without one has a null body); status 0 stands for a
\* request that failed in the network. A 2xx answer carries the JSON {slug}.
NetworkError == [status |-> 0, body |-> FALSE]
Answer(status) == [status |-> status, body |-> TRUE]
AllAnswers ==
    { Answer(201), Answer(200), Answer(400), Answer(404), Answer(429), Answer(500),
      [status |-> 429, body |-> FALSE], NetworkError }
FewAnswers == { Answer(201), Answer(400), Answer(500) }

Hole == [kind |-> "hole"]

\* Strings whose characters matter are sequences of one-character strings.
Take(str, k) == SubSeq(str, 1, k)
Drop(str, k) == SubSeq(str, k + 1, Len(str))

\* The length of the longest prefix of str made of characters of C.
SpanLen(str, C) ==
    CHOOSE k \in 0..Len(str) :
        /\ \A j \in 1..k : str[j] \in C
        /\ k = Len(str) \/ str[k + 1] \notin C

\* The length of the longest suffix of str made of characters of C.
SpanLenEnd(str, C) ==
    CHOOSE k \in 0..Len(str) :
        /\ \A j \in (Len(str) - k + 1)..Len(str) : str[j] \in C
        /\ k = Len(str) \/ str[Len(str) - k] \notin C

TrimStart(str) == Drop(str, SpanLen(str, {" "}))

TrimEnd(str) == Take(str, Len(str) - SpanLenEnd(str, {" "}))

\* String.prototype.trim
Trim(str) == TrimEnd(TrimStart(str))

\* Set.add of the trimmed names, in order: a name already present is not added again.
AddTrimmed(combined, gs) ==
    LET added[k \in 0..Len(gs)] ==
            IF k = 0 THEN combined
            ELSE IF \E j \in DOMAIN added[k - 1] : added[k - 1][j] = Trim(gs[k])
                 THEN added[k - 1]
                 ELSE Append(added[k - 1], Trim(gs[k]))
    IN  added[Len(gs)]

\* register.ts:296-301  mergeGroups: the global groups, then the skill's own. An
\* absent list is the empty one.
mergeGroups(perSkill, global) == AddTrimmed(AddTrimmed(<<>>, global), perSkill)

\* The group check looking at the first skill only.
skillsWithoutGroups_FirstOnly(own, global) ==
    { i \in DOMAIN own : i = 1 /\ mergeGroups(own[i], global) = <<>> }

\* register.ts:383-390 and 408: the skills whose merged groups are empty.
skillsWithoutGroups(own, global) ==
    { i \in DOMAIN own : mergeGroups(own[i], global) = <<>> }

\* The groups given in the model: a global list that is absent or holds "g", and
\* skills with no groups of their own except, possibly, the first, whose " g" is to
\* be trimmed.
GlobalGroups == { <<>>, << <<"g">> >> }
OwnGroups(n) ==
    { [i \in 1..n |-> <<>>],
      [i \in 1..n |-> IF i = 1 THEN << <<" ", "g">> >> ELSE <<>>] }

Pow2(k) == IF k = 0 THEN 1 ELSE IF k = 1 THEN 2 ELSE IF k = 2 THEN 4 ELSE 8

\* getBackoffDelay counting the attempts from 1.
getBackoffDelay_FromOne(attempt) == BASE_DELAY_MS * Pow2(attempt + 1)

\* register.ts:289-291
getBackoffDelay(attempt) == BASE_DELAY_MS * Pow2(attempt)

\* response.ok
IsOk(status) == status >= 200 /\ status < 300

\* register.ts:462 and 473: a client error that is not retried.
NonRetryable(status) == status >= 400 /\ status < 500 /\ status # 429

\* register.ts:461-482: the error remembered after a retryable failure. A network
\* failure is caught at 480. For a 429 the body was read at 463, so the second
\* read at 479 rejects when the response has a body stream, and that TypeError is
\* what 480-481 remembers; any other status is read once, at 479.
LastErrorOf(o) ==
    IF o.status = 0 THEN [kind |-> "network"]
    ELSE IF o.status >= 400 /\ o.status < 500 /\ o.body
         THEN [kind |-> "TypeError", message |-> "Body is unusable"]
         ELSE [kind |-> "http", status |-> o.status]

\* How often the body of one response is read (452; 463 and 479; 479).
BodyReads(o) ==
    IF o.status = 0 THEN 0
    ELSE IF IsOk(o.status) THEN 1
    ELSE IF NonRetryable(o.status) THEN 1
    ELSE IF o.status >= 400 /\ o.status < 500 THEN 2
    ELSE 1

\* register.ts:453-458
SuccessResult(i, status) ==
    [kind |-> "result", name |-> i, success |-> TRUE, updated |-> (status = 200)]

\* register.ts:513-517 and 536-540
FailedResult(i, err) ==
    [kind |-> "result", name |-> i, success |-> FALSE, error |-> err]

\* register.ts:416  batch?.concurrency ?? DEFAULT_CONCURRENCY
Concurrency == IF reg.limit = <<>> THEN DEFAULT_CONCURRENCY ELSE reg.limit[1]

\* One worker per item, whatever the limit.
Min_Items(a, b) == b

\* At most one worker, whatever the limit.
Min_One(a, b) == IF b = 0 THEN 0 ELSE 1

\* Math.min
Min(a, b) == IF a < b THEN a ELSE b

\* register.ts:246: the registry a call goes to when no apiUrl is given, as new URL()
\* would see it.
DEFAULT_API_URL == [valid |-> TRUE, protocol |-> "https:", hostname |-> "api.skillz.market"]

FreshSkill == [posts |-> 0, hist |-> <<>>, delays |-> <<>>, reads |-> 0, to |-> <<>>]

\* register.ts:442-449: one more POST /skills for skill i, sent with the API key to
\* the apiUrl of the call.
Posted(s, i) == [s EXCEPT ![i].posts = @ + 1, ![i].to = Append(@, reg.apiUrl)]

\* register.ts:352-425 up to the first await: the empty map, the missing API key and
\* the skills without groups return (or raise) at once; otherwise parallelLimit
\* (306-329) allocates the results array and starts min(limit, n) workers, each of
\* which takes the next index and sends its first request before it yields.
\* Array(k) raises a RangeError for a negative k.
RegStart ==
    /\ reg.pc = "called"
    /\ LET n == reg.n
           early == IF ~reg.apiKey THEN "API key required"
                    ELSE IF skillsWithoutGroups(reg.own, reg.groups) # {}
                    THEN "Skills missing groups"
                    ELSE None
           W == Min(Concurrency, n) IN
       IF n = 0
       THEN /\ reg' = [reg EXCEPT !.pc = "resolved", !.returned = <<>>]
            /\ UNCHANGED <<index, results, workers, sk>>
       ELSE IF early # None
       THEN /\ reg' = IF reg.mode = "throw"
                      THEN [reg EXCEPT !.pc = "rejected"]
                      ELSE [reg EXCEPT !.pc = "resolved",
                                       !.returned = [i \in 1..n |-> FailedResult(i, [kind |-> early])]]
            /\ UNCHANGED <<index, results, workers, sk>>
       ELSE IF W < 0
       THEN /\ reg' = [reg EXCEPT !.pc = "rejected"]
            /\ results' = [i \in 1..n |-> Hole]
            /\ sk' = [i \in 1..n |-> FreshSkill]
            /\ UNCHANGED <<index, workers>>
       ELSE /\ reg' = [reg EXCEPT !.pc = "running"]
            /\ results' = [i \in 1..n |-> Hole]
            /\ index' = W
            /\ workers' = [w \in 1..W |-> [pc |-> "post", i |-> w, attempt |-> 0,
                                           lastError |-> NoBody]]
            /\ sk' = [i \in 1..n |-> IF i <= W THEN [FreshSkill EXCEPT !.posts = 1]
                                     ELSE FreshSkill]
    /\ UNCHANGED restOfRegister

\* The worker stores its result and takes the next index, but advances the shared
\* counter only when no other worker has advanced it since this worker took its item.
WorkerStores_StaleIndex(w, res, s) ==
    /\ results' = [results EXCEPT ![workers[w].i] = res]
    /\ IF index < reg.n
       THEN /\ workers' = [workers EXCEPT ![w] = [pc |-> "post", i |-> index + 1,
                                                  attempt |-> 0, lastError |-> NoBody]]
            /\ sk' = Posted(s, index + 1)
            /\ index' = IF workers[w].i = index THEN index + 1 ELSE index
       ELSE /\ workers' = [workers EXCEPT ![w].pc = "exit"]
            /\ sk' = s
            /\ UNCHANGED index
    /\ UNCHANGED reg

\* register.ts:315-321: the worker stores the result of its item and loops: it takes
\* the next index and sends that skill's first request, or leaves the loop.
\* `res` is the result to store.
WorkerStores(w, res, s) ==
    /\ results' = [results EXCEPT ![workers[w].i] = res]
    /\ IF index < reg.n
       THEN /\ index' = index + 1
            /\ workers' = [workers EXCEPT ![w] = [pc |-> "post", i |-> index + 1,
                                                  attempt |-> 0, lastError |-> NoBody]]
            /\ sk' = Posted(s, index + 1)
       ELSE /\ workers' = [workers EXCEPT ![w].pc = "exit"]
            /\ sk' = s
            /\ UNCHANGED index
    /\ UNCHANGED reg

\* register.ts:500-518 handleSkillError: in throw mode the worker's promise rejects,
\* which rejects Promise.all (327) and register(); the other workers run on.
WorkerFails(w, err, s) ==
    IF reg.mode = "throw"
    THEN /\ workers' = [workers EXCEPT ![w].pc = "threw"]
         /\ reg' = IF reg.pc = "running" THEN [reg EXCEPT !.pc = "rejected"] ELSE reg
         /\ sk' = s
         /\ UNCHANGED <<index, results>>
    ELSE WorkerStores(w, FailedResult(workers[w].i, err), s)

\* register.ts:470 and 480-481: `return handleSkillError(...)` stands inside the try
\* block, so what handleSkillError throws in throw mode is caught by the catch of the
\* same attempt and remembered as the last error.
CaughtError(o) ==
    IF NonRetryable(o.status) THEN [kind |-> "thrown", status |-> o.status]
    ELSE LastErrorOf(o)

\* register.ts:440-495: the answer to one attempt of registerSkillWithRetry. A client
\* error ends the skill's registration only when handleSkillError returns (warn and
\* silent mode); in throw mode its exception is caught at 480 and the loop goes on.
WRespond(w) ==
    /\ workers[w].pc = "post"
    /\ \E o \in reg.registry :
        LET me == workers[w]
            i  == me.i
            s  == [sk EXCEPT ![i].hist = Append(@, o), ![i].reads = BodyReads(o)] IN
        IF IsOk(o.status)
        THEN WorkerStores(w, SuccessResult(i, o.status), s)
        ELSE IF NonRetryable(o.status) /\ reg.mode # "throw"
        THEN WorkerFails(w, [kind |-> "http", status |-> o.status], s)
        ELSE IF me.attempt < MAX_RETRIES - 1
        THEN /\ workers' = [workers EXCEPT ![w].pc = "sleep",
                                           ![w].lastError = CaughtError(o)]
             /\ sk' = [s EXCEPT ![i].delays = Append(@, getBackoffDelay(me.attempt))]
             /\ UNCHANGED <<reg, index, results>>
        ELSE WorkerFails(w, [kind |-> "exhausted", attempts |-> MAX_RETRIES,
                             last |-> CaughtError(o)], s)
    /\ UNCHANGED restOfRegister

\* The backoff sleep ends and the same attempt is counted again.
WWake_SameAttempt(w) ==
    /\ workers[w].pc = "sleep"
    /\ workers' = [workers EXCEPT ![w].pc = "post"]
    /\ sk' = Posted(sk, workers[w].i)
    /\ UNCHANGED <<reg, index, results>>
    /\ UNCHANGED restOfRegister

\* register.ts:486 and 440-442: the backoff sleep ends and the next attempt is sent.
WWake(w) ==
    /\ workers[w].pc = "sleep"
    /\ workers' = [workers EXCEPT ![w].pc = "post", ![w].attempt = @ + 1]
    /\ sk' = Posted(sk, workers[w].i)
    /\ UNCHANGED <<reg, index, results>>
    /\ UNCHANGED restOfRegister

\* register.ts:327-328 and 425: every worker has left its loop; the results array is
\* returned.
RegReturn ==
    /\ reg.pc = "running"
    /\ \A w \in DOMAIN workers : workers[w].pc = "exit"
    /\ reg' = [reg EXCEPT !.pc = "resolved", !.returned = results]
    /\ UNCHANGED <<index, results, workers, sk>>
    /\ UNCHANGED restOfRegister

\* register.ts:352-364: a call of register() with its options.
RegCalledAt(n, mode, limit, apiKey, own, global, registry, apiUrl) ==
    /\ reg = [pc |-> "called", n |-> n, mode |-> mode, limit |-> limit, apiKey |-> apiKey,
              own |-> own, groups |-> global, registry |-> registry, returned |-> <<>>,
              apiUrl |-> apiUrl]
    /\ index = 0
    /\ results = <<>>
    /\ workers = <<>>
    /\ sk = <<>>

\* A call that gives no apiUrl.
RegCalled(n, mode, limit, apiKey, own, global, registry) ==
    RegCalledAt(n, mode, limit, apiKey, own, global, registry, DEFAULT_API_URL)

NextRegister ==
    \/ RegStart
    \/ RegReturn
    \/ \E w \in DOMAIN workers : WRespond(w)
    \/ \E w \in DOMAIN workers : WWake(w)

\* One skill, every answer of the registry.
InitRetry ==
    /\ \E mode \in Modes, limit \in {<<>>, <<1>>} :
          RegCalled(1, mode, limit, TRUE, <<<<>>>>, << <<"g">> >>, AllAnswers)
    /\ ServeIdle
    /\ FetchIdle
    /\ UpdIdle
    /\ AuthIdle
    /\ FnIdle
    /\ OutIdle
    /\ CallIdle /\ StartIdle /\ FbIdle

SpecRetry == InitRetry /\ [][NextRegister]_vars

\* A batch of up to MaxSkills skills under every concurrency limit.
InitRegister ==
    /\ \E n \in 0..MaxSkills, mode \in Modes, limit \in Limits, apiKey \in BOOLEAN :
       \E own \in OwnGroups(n), global \in GlobalGroups :
          /\ (~apiKey => global # <<>>)
          /\ RegCalled(n, mode, limit, apiKey, own, global, FewAnswers)
    /\ ServeIdle
    /\ FetchIdle
    /\ UpdIdle
    /\ AuthIdle
    /\ FnIdle
    /\ OutIdle
    /\ CallIdle /\ StartIdle /\ FbIdle

SpecRegister == InitRegister /\ [][NextRegister]_vars
(***************************************************************************)
(* Claims about register().                                                *)
(***************************************************************************)
\* The skill's registration is in the hands of a worker that is sending a request or
\* sleeping before the next one.
InProgress(i) ==
    \E w \in DOMAIN workers : workers[w].i = i /\ workers[w].pc \in {"post", "sleep"}

RetryableStatus(st) == st = 0 \/ st = 429 \/ st >= 500

\* C7: in one register() call each skill gets at most 3 POST /skills attempts, made
\* one after the other; the backoff is 1000 ms before the 2nd attempt and 2000 ms
\* before the 3rd, with no delay before the first attempt and none after the last.
C7_AttemptsAndBackoff ==
    \A i \in DOMAIN sk :
        LET s == sk[i] IN
        /\ s.posts <= 3
        /\ s.posts - Len(s.hist) \in {0, 1}
        /\ Len(s.delays) <= 2
        /\ s.delays = SubSeq(<<1000, 2000>>, 1, Len(s.delays))
        /\ Len(s.delays) <= Len(s.hist)
        /\ s.posts <= Len(s.delays) + 1
        /\ (s.posts >= 1 /\ ~InProgress(i)) => Len(s.delays) = s.posts - 1

\* A skill has had its three attempts, with both delays between them.
C7_Witness ==
    \E i \in DOMAIN sk :
        /\ sk[i].posts = 3
        /\ Len(sk[i].hist) = 3
        /\ sk[i].delays = <<1000, 2000>>
        /\ ~InProgress(i)

\* C8: an attempt answered with a status in [400,500) other than 429 ends the skill's
\* registration at once, as a failure and with no further attempt (a failed result,
\* or in throw mode the raised error); a 429, a 5xx or a network error before the
\* last attempt is followed by a backoff and another attempt; a 2xx ends it with one
\* successful result.
C8_RetryPolicy ==
    \A i \in DOMAIN sk :
        LET s == sk[i]
            h == s.hist IN
        \A k \in 1..Len(h) :
            LET st == h[k].status IN
            /\ (st >= 400 /\ st < 500 /\ st # 429) =>
                  /\ k = Len(h)
                  /\ s.posts = k
                  /\ ~InProgress(i)
                  /\ IF reg.mode = "throw"
                     THEN results[i] = Hole /\ reg.pc = "rejected"
                     ELSE results[i] = FailedResult(i, [kind |-> "http", status |-> st])
            /\ (RetryableStatus(st) /\ k < 3) =>
                  /\ Len(s.delays) >= k
                  /\ s.posts > k \/ InProgress(i)
                  /\ k = Len(h) => results[i] = Hole
            /\ (st >= 200 /\ st < 300) =>
                  /\ k = Len(h)
                  /\ s.posts = k
                  /\ Len(s.delays) = k - 1
                  /\ results[i] = SuccessResult(i, st)

\* 429, 429, 201: the skill is registered after exactly two backoff delays.
C8_Witness ==
    \E i \in DOMAIN sk :
        /\ Len(sk[i].hist) = 3
        /\ sk[i].hist[1].status = 429
        /\ sk[i].hist[2].status = 429
        /\ sk[i].hist[3].status = 201
        /\ sk[i].delays = <<1000, 2000>>
        /\ results[i].kind = "result"
        /\ results[i].success

\* C9: when all 3 attempts of a skill fail with retryable outcomes, register() in warn
\* or silent mode yields for it a result with success=false whose error carries the
\* outcome of the third attempt: its HTTP status for a non-2xx response, the error of
\* the network failure otherwise.
C9_ExhaustedCarriesLastOutcome ==
    \A i \in DOMAIN sk :
        LET h == sk[i].hist IN
        (Len(h) = 3 /\ RetryableStatus(h[3].status) /\ reg.mode # "throw") =>
            /\ results[i].kind = "result"
            /\ results[i].success = FALSE
            /\ results[i].error.kind = "exhausted"
            /\ results[i].error.last =
                  IF h[3].status = 0 THEN [kind |-> "network"]
                  ELSE [kind |-> "http", status |-> h[3].status]

\* C10: for every number of skills and every configured concurrency limit, register()
\* in warn or silent mode returns an array with exactly one RegistrationResult per
\* input skill, the one at index i being that of the i-th skill.
C10_OneResultPerSkill ==
    (reg.mode # "throw" /\ reg.pc = "resolved") =>
        /\ DOMAIN reg.returned = 1..reg.n
        /\ \A i \in 1..reg.n :
              reg.returned[i].kind = "result" /\ reg.returned[i].name = i

(***************************************************************************)
(* A batch larger than the default concurrency.                            *)
(***************************************************************************)
\* One skill more than the default limit, against a registry that is failing.
MaxBatch == DEFAULT_CONCURRENCY + 1

InitLimit ==
    /\ \E mode \in {"warn", "silent"} :
          RegCalled(MaxBatch, mode, <<>>, TRUE, [i \in 1..MaxBatch |-> <<>>],
                    << <<"g">> >>, {Answer(500)})
    /\ ServeIdle
    /\ FetchIdle
    /\ UpdIdle
    /\ AuthIdle
    /\ FnIdle
    /\ OutIdle
    /\ CallIdle /\ StartIdle /\ FbIdle

SpecLimit == InitLimit /\ [][NextRegister]_vars

\* The skills whose registration is in progress.
InProgressSkills == { i \in DOMAIN sk : InProgress(i) }

\* C11: at every moment of a register() call the number of skills whose
\* registration is in progress (request in flight or in backoff sleep) is at most
\* the configured concurrency limit, 5 when none is given. (Under a negative limit
\* nothing is ever in progress.)
C11_InProgressBounded ==
    (reg.pc # "idle") =>
        LET limit == IF reg.limit = <<>> THEN 5 ELSE reg.limit[1] IN
        /\ limit >= 0 => Cardinality(InProgressSkills) <= limit
        /\ limit < 0 => InProgressSkills = {}

\* Under the default limit five of the six skills are in progress, some in flight
\* and some asleep, and the sixth has not been started.
C11_Witness ==
    /\ reg.limit = <<>>
    /\ reg.n = 6
    /\ Cardinality(InProgressSkills) = 5
    /\ \E w \in DOMAIN workers : workers[w].pc = "sleep"
    /\ \E i \in DOMAIN sk : sk[i].posts = 0

\* The input skills left without any group: neither a global list nor one of their
\* own (a listed name stays a group after trimming, even a blank one).
Groupless == { i \in 1..reg.n : reg.own[i] = <<>> /\ reg.groups = <<>> }

\* C12: if at least one skill passed to register() has no group after merging its
\* own groups with the global ones, no POST /skills request is issued for any skill:
\* in throw mode register() raises, in warn and silent mode it returns a failed
\* result for every input skill.
C12_GrouplessFailsFast ==
    (reg.pc # "idle" /\ Groupless # {}) =>
        /\ workers = <<>>
        /\ \A i \in DOMAIN sk : sk[i].posts = 0
        /\ reg.pc \in {"called", IF reg.mode = "throw" THEN "rejected" ELSE "resolved"}
        /\ (reg.pc = "resolved") =>
              /\ DOMAIN reg.returned = 1..reg.n
              /\ \A i \in 1..reg.n :
                    /\ reg.returned[i].kind = "result"
                    /\ reg.returned[i].name = i
                    /\ reg.returned[i].success = FALSE

\* Of three skills the first has a group of its own and the others none: all three
\* got a failed result and nothing was sent.
C12_Witness ==
    /\ reg.pc = "resolved"
    /\ reg.n = 3
    /\ reg.apiKey
    /\ Groupless = {2, 3}
    /\ \A i \in 1..3 : reg.returned[i].success = FALSE
    /\ sk = <<>>

\* register() went past its validation: an API key and a group for every skill.
PastValidation == reg.pc # "idle" /\ reg.n > 0 /\ reg.apiKey /\ Groupless = {}

\* C13: in warn and silent mode register() never raises; the failure of one skill's
\* registration does not keep any other skill from being attempted, and the
\* returned array holds the successful and the failed results.
C13_WarnSilentIsolated ==
    (reg.mode # "throw" /\ PastValidation) =>
        /\ reg.pc # "rejected"
        /\ (reg.pc = "resolved") =>
              /\ DOMAIN reg.returned = 1..reg.n
              /\ \A i \in 1..reg.n :
                    /\ sk[i].posts >= 1
                    /\ reg.returned[i].kind = "result"
                    /\ reg.returned[i].name = i

\* Some worker's registration has raised.
HardFailure == \E w \in DOMAIN workers : workers[w].pc = "threw"

\* C14: in throw mode register() aborts the whole operation on the first hard
\* failure: it raises, and once the failure has occurred no further POST /skills
\* request is started for any skill.
C14_ThrowAborts ==
    /\ [](HardFailure => reg.mode = "throw" /\ reg.pc = "rejected")
    /\ [][HardFailure => \A i \in DOMAIN sk : sk'[i].posts = sk[i].posts]_vars

(***************************************************************************)
(* Part 4.  The price parser and updateSkill()                             *)
(***************************************************************************)
Digits == {"0", "1", "2", "3", "4", "5", "6", "7", "8", "9"}

DigitVal(c) ==
    CASE c = "0" -> 0 [] c = "1" -> 1 [] c = "2" -> 2 [] c = "3" -> 3 [] c = "4" -> 4
      [] c = "5" -> 5 [] c = "6" -> 6 [] c = "7" -> 7 [] c = "8" -> 8 [] c = "9" -> 9

\* The number written by a string of digits.
ToInt(ds) ==
    LET value[k \in 0..Len(ds)] ==
            IF k = 0 THEN 0 ELSE 10 * value[k - 1] + DigitVal(ds[k])
    IN  value[Len(ds)]

Pow10(k) ==
    LET power[j \in 0..k] == IF j = 0 THEN 1 ELSE 10 * power[j - 1]
    IN  IF k <= 0 THEN 1 ELSE power[k]

NaN == [nan |-> TRUE, neg |-> FALSE, inf |-> FALSE, mant |-> 0, exp |-> 0]

\* parseFloat reads its string in four steps, each taking what the step before
\* left: the sign, the integer digits, the fraction, the exponent.
ReadSign(str) ==
    LET signed == str # <<>> /\ Head(str) \in {"+", "-"} IN
    [neg |-> str # <<>> /\ Head(str) = "-", rest |-> IF signed THEN Tail(str) ELSE str]

ReadInteger(p) ==
    [neg |-> p.neg, start |-> p.rest,
     int |-> Take(p.rest, SpanLen(p.rest, Digits)),
     rest |-> Drop(p.rest, SpanLen(p.rest, Digits))]

ReadFraction(p) ==
    IF p.rest # <<>> /\ Head(p.rest) = "."
    THEN [neg |-> p.neg, start |-> p.start, int |-> p.int,
          frac |-> Take(Tail(p.rest), SpanLen(Tail(p.rest), Digits)),
          rest |-> Drop(Tail(p.rest), SpanLen(Tail(p.rest), Digits))]
    ELSE [neg |-> p.neg, start |-> p.start, int |-> p.int, frac |-> <<>>, rest |-> p.rest]

ReadExponent(p) ==
    IF Len(p.rest) >= 2 /\ p.rest[1] \in {"e", "E"}
    THEN LET signed == p.rest[2] \in {"+", "-"}
             ds == IF signed THEN Drop(p.rest, 2) ELSE Drop(p.rest, 1)
             e == ToInt(Take(ds, SpanLen(ds, Digits))) IN
         IF p.rest[2] = "-" THEN 0 - e ELSE e
    ELSE 0

NumberRead(p) ==
    IF p.int = <<>> /\ p.frac = <<>>
    THEN IF Len(p.start) >= 8
            /\ Take(p.start, 8) = <<"I", "n", "f", "i", "n", "i", "t", "y">>
         THEN [nan |-> FALSE, neg |-> p.neg, inf |-> TRUE, mant |-> 0, exp |-> 0]
         ELSE NaN
    ELSE [nan |-> FALSE, neg |-> p.neg, inf |-> FALSE,
          mant |-> ToInt(p.int \o p.frac),
          exp |-> ReadExponent(p) - Len(p.frac)]

\* parseFloat: the number written by the longest prefix of the string that is a
\* decimal literal (sign, digits, fraction, exponent, or Infinity), after leading
\* white space; NaN when there is none. The number is mant * 10^exp.
parseFloat(str) ==
    CHOOSE num \in
        { NumberRead(f) : f \in
            { ReadFraction(i) : i \in
                { ReadInteger(sg) : sg \in
                    { ReadSign(s0) : s0 \in {TrimStart(str)} } } } } : TRUE

\* num <= 0
NotPositive(v) == v.neg \/ (v.mant = 0 /\ ~v.inf)

\* num > 1000
Above1000(v) ==
    /\ ~v.neg
    /\ \/ v.inf
       \/ IF v.exp >= 0 THEN v.mant * Pow10(v.exp) > 1000
                        ELSE v.mant > 1000 * Pow10(0 - v.exp)

\* utils/price.ts:48-65  validateAmount: the error it throws, or None.
AmountError(num) ==
    IF num.nan THEN "is not a number"
    ELSE IF NotPositive(num) THEN "must be positive"
    ELSE IF Above1000(num) THEN "seems too high"
    ELSE None

validateAmount(amount) ==
    CHOOSE err \in { AmountError(num) : num \in {parseFloat(amount)} } : TRUE

\* utils/price.ts:21-22, 29-30, 35-36: the amount is validated and returned.
Accepted(amount) ==
    IF validateAmount(amount) = None
    THEN [ok |-> TRUE, amount |-> amount, currency |-> "USDC"]
    ELSE [ok |-> FALSE, error |-> validateAmount(amount)]

\* /^[\d.]+$/
IsNumberLike(str) == str # <<>> /\ SpanLen(str, Digits \cup {"."}) = Len(str)

\* /^([\d.]+)\s*USDC$/i : the captured amount, or <<>> without a match.
usdcMatch(str) ==
    IF Len(str) >= 4
       /\ str[Len(str) - 3] \in {"U", "u"} /\ str[Len(str) - 2] \in {"S", "s"}
       /\ str[Len(str) - 1] \in {"D", "d"} /\ str[Len(str)] \in {"C", "c"}
       /\ IsNumberLike(TrimEnd(Take(str, Len(str) - 4)))
    THEN TrimEnd(Take(str, Len(str) - 4))
    ELSE <<>>

\* utils/price.ts:18-42: parsePrice after the trim.
ParseTrimmed(trimmed) ==
    IF trimmed # <<>> /\ Head(trimmed) = "$"
    THEN CHOOSE p \in { Accepted(amount) : amount \in {Trim(Tail(trimmed))} } : TRUE
    ELSE IF usdcMatch(trimmed) # <<>>
    THEN CHOOSE p \in { Accepted(amount) : amount \in {usdcMatch(trimmed)} } : TRUE
    ELSE IF IsNumberLike(trimmed) THEN Accepted(trimmed)
    ELSE [ok |-> FALSE, error |-> "Invalid price format"]

\* utils/price.ts:15-43  parsePrice
parsePrice(price) ==
    CHOOSE p \in { ParseTrimmed(trimmed) : trimmed \in {Trim(price)} } : TRUE

\* Price strings the parser accepts, and price strings it rejects.
GoodPrices ==
    {
      <<"$", "0", ".", "0", "0", "1">>,             \* '$0.001'
      <<"0", ".", "0", "0", "5", " ", "U", "S", "D", "C">>, \* '0.005 USDC'
      <<"0", ".", "0", "1">>,                       \* '0.01'
      <<" ", "$", " ", "1", " ">>,                  \* ' $ 1 '
      <<"1", ".", "5", "u", "s", "d", "c">>,        \* '1.5usdc'
      <<"$", "1", "e", "2">>,                       \* '$1e2'
      <<"1", "0", "0", "0">>,                       \* '1000'
      <<"$", "1", "a", "b", "c">>,                  \* '$1abc'
      <<"1", ".", "2", ".", "3">>                   \* '1.2.3'
    }

BadPrices ==
    {
      <<"a", "b", "c">>,                            \* 'abc'
      <<"$", "0">>,                                 \* '$0'
      <<"$", "-", "1">>,                            \* '$-1'
      <<"2", "0", "0", "0">>,                       \* '2000'
      <<"$", "1", "e", "5">>,                       \* '$1e5'
      <<>>,                                         \* ''
      <<".">>,                                      \* '.'
      <<"$">>,                                      \* '$'
      <<"0", ".", "0", " ", "U", "S", "D", "C">>,   \* '0.0 USDC'
      <<"U", "S", "D", "C">>,                       \* 'USDC'
      <<"1", " ", "0", "0", "0">>,                  \* '1 000'
      <<"$", "I", "n", "f", "i", "n", "i", "t", "y">> \* '$Infinity'
    }

\* An optional field is <<>> when absent and <<value>> when given.
Absent == <<>>

\* SkillUpdateData (types.ts:144-157): the fields updateSkill looks at.
UpdateData ==
    { [groups |-> g, price |-> pr] :
        g \in {Absent, << <<>> >>, << << <<"g">> >> >>},
        pr \in {Absent} \cup { <<x>> : x \in GoodPrices \cup BadPrices } }

\* What the registry answers to the PATCH: a status, and for an error the shape of
\* its body. Status 0 is a request that failed in the network.
UpdateAnswers ==
    { [status |-> st, body |-> b] :
        st \in {200, 204}, b \in {"none"} }
    \cup { [status |-> st, body |-> b] :
        st \in {400, 404, 429, 500}, b \in {"json message", "json error", "json null", "text"} }
    \cup { [status |-> 0, body |-> "none"] }

\* updateSkill validating neither the groups nor the price.
updateSkillError_KeyOnly(apiKey, data) ==
    IF ~apiKey THEN "API key required for updating skills" ELSE None

\* register.ts:605-634: the validation before the request: the error of the failed
\* result returned at once, or None.
updateSkillError(apiKey, data) ==
    IF ~apiKey THEN "API key required for updating skills"
    ELSE IF data.groups # Absent /\ data.groups[1] = <<>> THEN "At least one group is required"
    ELSE IF data.price # Absent /\ ~parsePrice(data.price[1]).ok
         THEN parsePrice(data.price[1]).error
    ELSE None

\* register.ts:622-627: the payload is the data with the price replaced by the
\* parsed amount.
updatePayload(data) ==
    IF data.price # Absent /\ parsePrice(data.price[1]).ok
    THEN [data EXCEPT !.price = <<parsePrice(data.price[1]).amount>>]
    ELSE data

\* register.ts:650-658: the error message taken from a non-2xx response.
errorMessage(body) ==
    IF body = "json message" THEN "errorData.message"
    ELSE IF body = "json error" THEN "errorData.error"
    ELSE "errorText"

UpdateFailed(err) == [kind |-> "UpdateResult", success |-> FALSE, error |-> err]

\* register.ts:598-636: updateSkill up to its first await: it returns a failed result
\* for a missing API key, an empty groups list or a rejected price, and otherwise
\* sends the PATCH.
UpdStart ==
    /\ upd.pc = "called"
    /\ LET err == updateSkillError(upd.apiKey, upd.data) IN
       upd' = IF err # None
              THEN [upd EXCEPT !.pc = "returned", !.result = UpdateFailed(err)]
              ELSE [upd EXCEPT !.pc = "patch",
                               !.requests = Append(@, updatePayload(upd.data)),
                               !.to = Append(@, upd.apiUrl)]
    /\ UNCHANGED restOfUpdate

\* register.ts:646-667: the answer to the PATCH, or its failure in the network.
UpdRespond ==
    /\ upd.pc = "patch"
    /\ \E a \in UpdateAnswers :
          upd' = [upd EXCEPT
                    !.pc = "returned",
                    !.answer = a,
                    !.result = IF a.status = 0 THEN UpdateFailed("err.message")
                               ELSE IF IsOk(a.status)
                               THEN [kind |-> "UpdateResult", success |-> TRUE]
                               ELSE UpdateFailed(errorMessage(a.body))]
    /\ UNCHANGED restOfUpdate

\* register.ts:598-603: a call of updateSkill() with its options.
UpdCalled(apiKey, data, apiUrl) ==
    upd = [pc |-> "called", apiKey |-> apiKey, data |-> data, requests |-> <<>>,
           answer |-> NoBody, result |-> NoBody, apiUrl |-> apiUrl, to |-> <<>>]

InitUpdate ==
    /\ \E apiKey \in BOOLEAN, data \in UpdateData : UpdCalled(apiKey, data, DEFAULT_API_URL)
    /\ ServeIdle
    /\ FetchIdle
    /\ RegIdle
    /\ AuthIdle
    /\ FnIdle
    /\ OutIdle
    /\ CallIdle /\ StartIdle /\ FbIdle

NextUpdate == UpdStart \/ UpdRespond

SpecUpdate == InitUpdate /\ [][NextUpdate]_vars

\* C15: updateSkill() never raises and sends at most one PATCH request, with no
\* retry on any failure: a missing API key, an empty groups list or a price the
\* price parser rejects yields a failed UpdateResult with zero requests sent; a
\* non-2xx response or a network error yields a failed UpdateResult after exactly
\* one request.
C15_UpdateSinglePatch ==
    (upd.pc # "idle") =>
        /\ upd.pc \in {"called", "patch", "returned"}
        /\ Len(upd.requests) <= 1
        /\ (upd.pc = "returned") => upd.result.kind = "UpdateResult"
        /\ (upd.pc = "returned"
              /\ (\/ ~upd.apiKey
                  \/ upd.data.groups = << <<>> >>
                  \/ upd.data.price # Absent /\ upd.data.price[1] \in BadPrices)) =>
              upd.result.success = FALSE /\ upd.requests = <<>>
        /\ (upd.pc = "returned" /\ upd.answer # NoBody /\ ~IsOk(upd.answer.status)) =>
              upd.result.success = FALSE /\ Len(upd.requests) = 1
        /\ (upd.pc = "patch") => Len(upd.requests) = 1
        /\ (Len(upd.requests) = 1 /\ upd.data.price # Absent) =>
              upd.data.price[1] \in GoodPrices

\* A PATCH carrying the parsed amount of '0.005 USDC' was answered 500 and the call
\* returned a failed result after that one request.
C15_Witness ==
    /\ upd.pc = "returned"
    /\ upd.data.price = << <<"0", ".", "0", "0", "5", " ", "U", "S", "D", "C">> >>
    /\ Len(upd.requests) = 1
    /\ upd.requests[1].price = << <<"0", ".", "0", "0", "5">> >>
    /\ upd.answer.status = 500
    /\ upd.result.success = FALSE

(***************************************************************************)
(* Part 5.  authenticate(): the challenge-response login of                *)
(* src/creator/auth.ts and of SkillzMarket.authenticate in src/client.ts   *)
(***************************************************************************)
\* A URL string as new URL() sees it: whether it parses, its protocol, its hostname.
Url(protocol, hostname) == [valid |-> TRUE, protocol |-> protocol, hostname |-> hostname]
DefaultApiUrl == Url("https:", "api.skillz.market")
ApiUrls ==
    { DefaultApiUrl, Url("http:", "api.skillz.market"), Url("http:", "localhost"),
      Url("http:", "127.0.0.1"), [valid |-> FALSE, protocol |-> "", hostname |-> ""] }

\* A validation that only asks the URL to parse.
validateHttpsUrl_AnyProtocol(url) ==
    IF ~url.valid THEN "TypeError: Invalid URL" ELSE None

\* auth.ts:19-25  validateHttpsUrl: the error it throws, or None.
validateHttpsUrl(url) ==
    IF ~url.valid THEN "TypeError: Invalid URL"
    ELSE LET isLocalhost == url.hostname = "localhost" \/ url.hostname = "127.0.0.1" IN
         IF ~isLocalhost /\ url.protocol # "https:"
         THEN "apiUrl must use HTTPS protocol for security"
         ELSE None

\* What the API answers to /auth/challenge: a status and the body, a JSON document
\* with the message to sign or something that is not JSON. Status 0 is a request
\* that failed in the network.
ChallengeAnswers ==
    { [status |-> st, message |-> msg] :
        st \in {200, 201, 401, 500}, msg \in {"challenge-1", "challenge-2"} }
    \cup { [status |-> 200, message |-> "not json"], [status |-> 0, message |-> None] }

\* What the API answers to /auth/verify.
VerifyAnswers ==
    { [status |-> 200, token |-> "jwt-1"], [status |-> 401, token |-> None],
      [status |-> 500, token |-> None], [status |-> 0, token |-> None] }

\* The wallet's signature of a message.
Signature(message) == <<"signed", message>>

\* A challenge answer taken for good whatever its status.
challengeOk_Always(answer) == answer.status # 0

\* auth.ts:59 and client.ts:138: challengeResponse.ok
challengeOk(answer) == IsOk(answer.status)

\* A verify answer taken for good whatever its status.
verifyOk_Always(answer) == answer.status # 0

\* auth.ts:85 and client.ts:157: authResponse.ok, verifyRes.ok
verifyOk(answer) == IsOk(answer.status)

\* What the API answers to /auth/refresh.
RefreshAnswers ==
    { [status |-> 200, token |-> "jwt-2"], [status |-> 401, token |-> None],
      [status |-> 0, token |-> None] }

\* The token a client may hold from an earlier authentication.
StoredTokens == {None, "jwt-0"}

HttpsRequired == "apiUrl must use HTTPS protocol for security"

AuThrew(a, err) == [a EXCEPT !.pc = "threw", !.error = err]

\* client.ts:33-49: the constructor of SkillzMarket validates the API URL (the one
\* given, or the default) before anything else and sends nothing.
AuConstruct ==
    /\ au.pc = "new"
    /\ LET early == validateHttpsUrl(au.apiUrl) IN
       au' = IF early # None THEN AuThrew(au, early)
             ELSE [au EXCEPT !.pc = "constructed"]
    /\ UNCHANGED restOfAuth

\* auth.ts:39-57 and client.ts:123-136: up to the challenge request. The creator side
\* validates the API URL first; the client, whose URL its constructor validated,
\* needs a wallet.
AuStart ==
    /\ \/ au.pc = "called" /\ au.impl = "creator"
       \/ au.pc = "constructed" /\ au.impl = "client"
    /\ LET early == IF au.impl = "creator" THEN validateHttpsUrl(au.apiUrl)
                    ELSE IF ~au.wallet THEN "Wallet required for authentication"
                    ELSE None IN
       au' = IF early # None THEN AuThrew(au, early)
             ELSE [au EXCEPT !.pc = "challenge", !.requests = @ + 1,
                             !.log = Append(@, [ev |-> "challenge", address |-> "0xAAA"])]
    /\ UNCHANGED restOfAuth

\* auth.ts:59-66 and client.ts:138-147: the answer to the challenge request. A
\* non-2xx answer raises; a 2xx answer is parsed for the message. The client raises
\* when the account cannot sign messages.
AuChallenge ==
    /\ au.pc = "challenge"
    /\ \E a \in ChallengeAnswers :
          au' = IF a.status = 0 THEN AuThrew([au EXCEPT !.challenge = a], "fetch failed")
                ELSE IF ~challengeOk(a)
                THEN AuThrew([au EXCEPT !.challenge = a], "Failed to get auth challenge")
                ELSE IF a.message = "not json"
                THEN AuThrew([au EXCEPT !.challenge = a], "SyntaxError")
                ELSE IF au.impl = "client" /\ ~au.canSign
                THEN AuThrew([au EXCEPT !.challenge = a],
                             "Account does not support message signing")
                ELSE [au EXCEPT !.pc = "sign", !.challenge = a, !.message = a.message]
    /\ UNCHANGED restOfAuth

\* auth.ts:69-83 and client.ts:148-155: the wallet signs the message (or fails to) and
\* the signature is sent to /auth/verify.
AuSign ==
    /\ au.pc = "sign"
    /\ \E ok \in BOOLEAN :
          au' = IF ok
                THEN [au EXCEPT !.pc = "verify", !.requests = @ + 1,
                        !.log = @ \o << [ev |-> "sign", message |-> au.message],
                                        [ev |-> "verify", address |-> "0xAAA",
                                         signature |-> Signature(au.message)] >>]
                ELSE AuThrew([au EXCEPT !.log = Append(@, [ev |-> "sign",
                                                            message |-> au.message])],
                             "signMessage failed")
    /\ UNCHANGED restOfAuth

\* auth.ts:85-100 and client.ts:157-163: the answer to the verify request. A non-2xx
\* answer raises; a 2xx answer yields the token, which the client also stores in
\* this.authToken.
AuVerify ==
    /\ au.pc = "verify"
    /\ \E a \in VerifyAnswers :
          au' = IF a.status = 0 THEN AuThrew([au EXCEPT !.verify = a], "fetch failed")
                ELSE IF ~verifyOk(a)
                THEN AuThrew([au EXCEPT !.verify = a],
                             IF au.impl = "creator" THEN "Failed to authenticate"
                             ELSE "Authentication failed")
                ELSE [au EXCEPT !.pc = "returned", !.verify = a, !.token = a.token,
                                !.authToken = IF au.impl = "client" THEN a.token ELSE @]
    /\ UNCHANGED restOfAuth

\* auth.ts:122-136  refreshAccessToken: the API URL is validated, then the refresh
\* token is posted to /auth/refresh.
AuRefresh ==
    /\ au.pc = "called" /\ au.impl = "refresh"
    /\ LET early == validateHttpsUrl(au.apiUrl) IN
       au' = IF early # None THEN AuThrew(au, early)
             ELSE [au EXCEPT !.pc = "refreshing", !.requests = @ + 1]
    /\ UNCHANGED restOfAuth

\* auth.ts:138-145: the answer to the refresh request.
AuRefreshed ==
    /\ au.pc = "refreshing"
    /\ \E a \in RefreshAnswers :
          au' = IF a.status = 0 THEN AuThrew(au, "fetch failed")
                ELSE IF ~IsOk(a.status) THEN AuThrew(au, "Failed to refresh token")
                ELSE [au EXCEPT !.pc = "returned", !.token = a.token]
    /\ UNCHANGED restOfAuth

AuCalled(pc, impl, apiUrl, wallet, canSign, stored) ==
    au = [pc |-> pc, impl |-> impl, apiUrl |-> apiUrl, wallet |-> wallet,
          canSign |-> canSign, log |-> <<>>, challenge |-> NoBody, message |-> None,
          token |-> None, error |-> None, requests |-> 0, verify |-> NoBody,
          stored |-> stored, authToken |-> stored]

\* The calls explored: a client constructed and then authenticated, the creator's
\* authenticate(), refreshAccessToken(); each with every API URL, under every
\* NODE_ENV.
InitAuth ==
    /\ \E apiUrl \in ApiUrls :
          \/ AuCalled("called", "creator", apiUrl, TRUE, TRUE, None)
          \/ AuCalled("called", "refresh", apiUrl, TRUE, TRUE, None)
          \/ \E wallet, canSign \in BOOLEAN : \E stored \in StoredTokens :
                AuCalled("new", "client", apiUrl, wallet, canSign, stored)
    /\ skills = [n \in {"echo"} |-> SkillDef("0.001")]
    /\ walletAddress = "0xAAA"
    /\ network = "eip155:8453"
    /\ onCall = None
    /\ onError = None
    /\ trackCalls = TRUE
    /\ nodeEnv \in NodeEnvs
    /\ req = <<>>
    /\ FetchIdle
    /\ RegIdle
    /\ UpdIdle
    /\ FnIdle
    /\ OutIdle
    /\ CallIdle /\ StartIdle /\ FbIdle

NextAuth ==
    \/ AuConstruct
    \/ AuStart
    \/ AuChallenge
    \/ AuSign
    \/ AuVerify
    \/ AuRefresh
    \/ AuRefreshed

SpecAuth == InitAuth /\ [][NextAuth]_vars

\* C20: authentication follows the order challenge, sign, verify: the wallet signs
\* only after a 2xx challenge response and signs exactly the message that response
\* carried; /auth/verify is requested only after signing; a non-2xx challenge
\* response ends authentication with an error, with nothing signed and no verify
\* request sent.
C20_ChallengeSignVerify ==
    (au.pc # "idle") =>
        /\ Len(au.log) <= 3
        /\ \A k \in DOMAIN au.log : au.log[k].ev = <<"challenge", "sign", "verify">>[k]
        /\ (Len(au.log) >= 2) =>
              /\ au.challenge # NoBody
              /\ au.challenge.status >= 200 /\ au.challenge.status < 300
              /\ au.log[2].message = au.challenge.message
        /\ (Len(au.log) = 3) => au.log[3].signature = <<"signed", au.log[2].message>>
        /\ (au.challenge # NoBody
              /\ ~(au.challenge.status >= 200 /\ au.challenge.status < 300)) =>
              /\ au.pc = "threw"
              /\ Len(au.log) = 1

\* After a 201 challenge answer carrying challenge-2 the wallet signed that message
\* and the verify request went out with its signature.
C20_Witness ==
    /\ au.pc = "returned"
    /\ au.challenge = [status |-> 201, message |-> "challenge-2"]
    /\ au.log[2] = [ev |-> "sign", message |-> "challenge-2"]
    /\ au.log[3].signature = <<"signed", "challenge-2">>
    /\ au.token = "jwt-1"

\* C21: whenever /auth/verify answers non-2xx, authenticate fails with an
\* authentication error: no token is returned and the client's stored auth token is
\* what it was before the call.
C21_FailedVerifyLeavesUnauthenticated ==
    (au.pc # "idle" /\ au.verify # NoBody /\ au.verify.status # 0
        /\ ~(au.verify.status >= 200 /\ au.verify.status < 300)) =>
        /\ au.pc = "threw"
        /\ au.error \in {"Authentication failed", "Failed to authenticate"}
        /\ au.token = None
        /\ au.authToken = au.stored

\* A client holding a token from an earlier authentication got 401 from /auth/verify:
\* the call raised and the stored token is the earlier one.
C21_Witness ==
    /\ au.pc = "threw"
    /\ au.impl = "client"
    /\ au.verify # NoBody
    /\ au.verify.status = 401
    /\ au.stored = "jwt-0"
    /\ au.authToken = "jwt-0"
    /\ au.error = "Authentication failed"

Insecure(url) ==
    url.valid /\ url.protocol = "http:" /\ url.hostname \notin {"localhost", "127.0.0.1"}
Allowed(url) ==
    url.valid /\ (url.protocol = "https:" \/ url.hostname \in {"localhost", "127.0.0.1"})

C22_Rejected ==
    (au.pc # "idle") =>
        /\ Insecure(au.apiUrl) =>
              /\ au.pc \in {"new", "called", "threw"}
              /\ au.requests = 0
              /\ au.pc = "threw" => au.error = HttpsRequired
        /\ Allowed(au.apiUrl) => au.error # HttpsRequired

C22_Proceeds ==
    (au.pc \in {"new", "called"} /\ Allowed(au.apiUrl)) => au'.pc \notin {"threw", au.pc}

C24_LocalhostOnlyInDevelopment ==
    (au.pc # "idle" /\ nodeEnv = "production" /\ au.apiUrl.valid
        /\ au.apiUrl.protocol = "http:") =>
        /\ au.pc \in {"new", "called", "threw"}
        /\ au.requests = 0

(***************************************************************************)
(* Part 6.  Where register() and updateSkill() send the API key            *)
(***************************************************************************)
\* The apiUrl option of register() and updateSkill().
RegistryUrls ==
    { DEFAULT_API_URL, Url("http:", "registry.example"), Url("http:", "localhost") }

\* One skill registered, or one skill updated, at each registry URL.
InitRegistryUrl ==
    /\ \E apiUrl \in RegistryUrls :
          \/ /\ \E mode \in Modes :
                   RegCalledAt(1, mode, <<>>, TRUE, << <<>> >>, << <<"g">> >>, AllAnswers,
                               apiUrl)
             /\ UpdIdle
          \/ /\ \E price \in {Absent, << <<"$", "0", ".", "0", "0", "1">> >>, << <<"a", "b", "c">> >>} :
                   UpdCalled(TRUE, [price |-> price, groups |-> Absent], apiUrl)
             /\ RegIdle
    /\ ServeIdle
    /\ FetchIdle
    /\ AuthIdle
    /\ FnIdle
    /\ OutIdle
    /\ CallIdle /\ StartIdle /\ FbIdle

NextRegistryUrl == NextRegister \/ NextUpdate

SpecRegistryUrl == InitRegistryUrl /\ [][NextRegistryUrl]_vars

\* C23: every request the SDK sends to the registry API goes to an HTTPS URL or to a
\* localhost host: register() and updateSkill(), which send the API key as a bearer
\* credential, never send it to an http:// URL on another host.
C23_ApiKeyOnlyOverHttps ==
    /\ \A i \in DOMAIN sk : \A k \in DOMAIN sk[i].to : ~Insecure(sk[i].to[k])
    /\ (upd.pc # "idle") => \A k \in DOMAIN upd.to : ~Insecure(upd.to[k])

(***************************************************************************)
(* Part 7.  Definition-time functions: resolveWalletToAddress() of         *)
(* src/creator/utils/wallet.ts, parsePrice() and skill()                   *)
(***************************************************************************)
\* A string of n characters c, and the same behind the prefix 0x.
Rep(n, c) == [i \in 1..n |-> c]
Hex0x(n, c) == <<"0", "x">> \o Rep(n, c)

\* The strings a wallet source may hold: the empty string, two 42-character
\* addresses, two 66-character private keys, an address without its prefix, and a
\* prefixed string of another length.
WalletStrings ==
    { <<>>, Hex0x(40, "a"), Hex0x(40, "b"), Hex0x(64, "1"), Hex0x(64, "2"),
      Rep(40, "a"), Hex0x(10, "a") }

\* A source of the wallet: not set (undefined), or set to a string.
WalletSources == {Absent} \cup { <<w>> : w \in WalletStrings }

\* a ?? b
Coalesce(a, b) == IF a # Absent THEN a ELSE b

\* The signer capability of section 1 of the specification: the address a private
\* key derives, the same for the same key.
privateKeyToAddress(key) == Hex0x(40, key[3])

\* wallet.ts:34  input.startsWith('0x')
StartsWith0x(str) == Len(str) >= 2 /\ str[1] = "0" /\ str[2] = "x"

\* wallet.ts:23-54  resolveWalletToAddress, given the explicit wallet and the two
\* environment variables: the address, or the error raised, with the input taken.
ResolveInput(input) ==
    IF input = Absent \/ input[1] = <<>>
    THEN [ok |-> FALSE, error |-> "No wallet configured", input |-> input]
    ELSE IF ~StartsWith0x(input[1])
    THEN [ok |-> FALSE, error |-> "Invalid wallet format", input |-> input]
    ELSE IF Len(input[1]) = 42
    THEN [ok |-> TRUE, address |-> input[1], input |-> input]
    ELSE IF Len(input[1]) = 66
    THEN [ok |-> TRUE, address |-> privateKeyToAddress(input[1]), input |-> input]
    ELSE [ok |-> FALSE, error |-> "Invalid wallet: must be 42-char address or 66-char private key",
          input |-> input]

resolveWalletToAddress(wallet, envAddress, envKey) ==
    ResolveInput(Coalesce(wallet, Coalesce(envAddress, envKey)))

\* resolveWalletToAddress(wallet) is called and returns or raises.
FnResolve ==
    /\ fn.pc = "called"
    /\ fn.op = "resolveWalletToAddress"
    /\ fn' = [fn EXCEPT !.pc = "done",
                        !.result = resolveWalletToAddress(fn.wallet, fn.envAddress, fn.envKey)]
    /\ UNCHANGED restOfFn

InitWallet ==
    /\ \E wallet, envAddress, envKey \in WalletSources :
          fn = [pc |-> "called", op |-> "resolveWalletToAddress", wallet |-> wallet,
                envAddress |-> envAddress, envKey |-> envKey, result |-> NoBody]
    /\ ServeIdle /\ FetchIdle /\ RegIdle /\ UpdIdle /\ AuthIdle
    /\ OutIdle /\ CallIdle /\ StartIdle /\ FbIdle

NextWallet == FnResolve

SpecWallet == InitWallet /\ [][NextWallet]_vars

\* A wallet source that gives nothing: not set, or set to the empty string.
Missing(source) == source = Absent \/ source = << <<>> >>

\* C25: resolveWalletToAddress takes the explicit input when one is given, otherwise
\* the address environment variable, otherwise the private-key environment
\* variable; it fails with 'No wallet configured' exactly when all three are absent.
C25_WalletPriority ==
    (fn.pc = "done" /\ fn.op = "resolveWalletToAddress") =>
        LET none == Missing(fn.wallet) /\ Missing(fn.envAddress) /\ Missing(fn.envKey)
            first == IF ~Missing(fn.wallet) THEN fn.wallet
                     ELSE IF ~Missing(fn.envAddress) THEN fn.envAddress
                     ELSE fn.envKey IN
        /\ (~fn.result.ok /\ fn.result.error = "No wallet configured") <=> none
        /\ ~none => fn.result.input = first

(***************************************************************************)
(* parsePrice() on every short string                                      *)
(***************************************************************************)
\* The characters the enumerated price strings are made of.
PriceChars == {"$", "1", "0", ".", "a", " "}

\* Every string of at most MaxPriceLen of these characters.
ShortStrings == UNION { [1..k -> PriceChars] : k \in 0..MaxPriceLen }

PriceInputs == GoodPrices \cup BadPrices \cup ShortStrings

\* parsePrice(price) is called and returns or raises.
FnParse ==
    /\ fn.pc = "called"
    /\ fn.op = "parsePrice"
    /\ fn' = [fn EXCEPT !.pc = "done", !.result = parsePrice(fn.price)]
    /\ UNCHANGED restOfFn

InitPrice ==
    /\ \E price \in PriceInputs :
          fn = [pc |-> "called", op |-> "parsePrice", price |-> price, result |-> NoBody]
    /\ ServeIdle /\ FetchIdle /\ RegIdle /\ UpdIdle /\ AuthIdle
    /\ OutIdle /\ CallIdle /\ StartIdle /\ FbIdle

NextPrice == FnParse

SpecPrice == InitPrice /\ [][NextPrice]_vars

\* What is left of a string after the exponent of a decimal literal.
ExponentRest(p) ==
    IF Len(p.rest) >= 2 /\ p.rest[1] \in {"e", "E"}
    THEN LET ds == IF p.rest[2] \in {"+", "-"} THEN Drop(p.rest, 2) ELSE Drop(p.rest, 1) IN
         IF SpanLen(ds, Digits) = 0 THEN p.rest ELSE Drop(ds, SpanLen(ds, Digits))
    ELSE p.rest

LiteralRead(p) == (p.int # <<>> \/ p.frac # <<>>) /\ ExponentRest(p) = <<>>

\* The whole string is one decimal literal: sign, digits, fraction, exponent, and
\* nothing after it.
IsDecimalLiteral(str) ==
    CHOOSE b \in
        { LiteralRead(f) : f \in
            { ReadFraction(i) : i \in
                { ReadInteger(sg) : sg \in { ReadSign(s0) : s0 \in {str} } } } } : TRUE

\* C27: for every input string that parsePrice accepts, the returned amount parses
\* as a finite number whose value is greater than 0 and at most 1000; every other
\* input is rejected with an error and no ParsedPrice is produced.
C27_AcceptedAmountInRange ==
    (fn.pc = "done" /\ fn.op = "parsePrice") =>
        IF fn.result.ok
        THEN /\ IsDecimalLiteral(fn.result.amount)
             /\ validateAmount(fn.result.amount) = None
        ELSE /\ "amount" \notin DOMAIN fn.result
             /\ fn.result.error # None

(***************************************************************************)
(* skill() of src/creator/skill.ts                                         *)
(***************************************************************************)
\* The timeout option: not given, a number of milliseconds, NaN, or a string.
TimeoutValues ==
    { Ms(v) : v \in {-1, 0, 1, 1500, 60000, 300000, 300001, 400000} }
    \cup { NaNMs, [type |-> "string", nan |-> FALSE, v |-> 5000] }
TimeoutOptions == {Absent} \cup { <<t>> : t \in TimeoutValues }

\* The groups option: not given, or a list of strings.
GroupOptions == { Absent, << <<>> >>, << << <<"g">> >> >>, << << <<"g">>, <<" ">> >> >> }

\* The price option.
SkillPrices ==
    { <<"$", "0", ".", "0", "0", "1">>, <<"0", ".", "0", "0", "5", " ", "U", "S", "D", "C">>,
      <<"a", "b", "c">>, <<"2", "0", "0", "0">> }

\* skill.ts:29-40: the error raised for the timeout, or None.
timeoutError(timeout) ==
    IF timeout = Absent THEN None
    ELSE IF timeout[1].type # "number" \/ (~timeout[1].nan /\ timeout[1].v <= 0)
    THEN "Invalid timeout"
    ELSE IF ~timeout[1].nan /\ timeout[1].v > 300000
    THEN "Timeout too long"
    ELSE None

\* skill.ts:43-52: the error raised for the groups, or None.
groupsError(groups) ==
    IF groups = Absent THEN None
    ELSE IF \E k \in DOMAIN groups[1] : Trim(groups[1][k]) = <<>>
    THEN "Each group must be a non-empty string"
    ELSE None

\* skill.ts:26-61 after the price has been parsed.
SkillOf(options, parsed) ==
    IF ~parsed.ok THEN [ok |-> FALSE, error |-> parsed.error]
    ELSE IF timeoutError(options.timeout) # None
    THEN [ok |-> FALSE, error |-> timeoutError(options.timeout)]
    ELSE IF groupsError(options.groups) # None
    THEN [ok |-> FALSE, error |-> groupsError(options.groups)]
    ELSE [ok |-> TRUE,
          timeout |-> IF options.timeout = Absent THEN Ms(60000) ELSE options.timeout[1],
          groups |-> options.groups,
          price |-> options.price,
          parsedPrice |-> [amount |-> parsed.amount, currency |-> parsed.currency]]

\* skill.ts:21-62  skill(options, handler): the definition returned, or the error raised.
skill(options) ==
    CHOOSE d \in { SkillOf(options, parsed) : parsed \in {parsePrice(options.price)} } : TRUE

\* skill(options, handler) is called and returns or raises.
FnSkill ==
    /\ fn.pc = "called"
    /\ fn.op = "skill"
    /\ fn' = [fn EXCEPT !.pc = "done", !.result = skill(fn.options)]
    /\ UNCHANGED restOfFn

InitSkill ==
    /\ \E price \in SkillPrices, timeout \in TimeoutOptions, groups \in GroupOptions :
          fn = [pc |-> "called", op |-> "skill",
                options |-> [price |-> price, timeout |-> timeout, groups |-> groups],
                result |-> NoBody]
    /\ ServeIdle /\ FetchIdle /\ RegIdle /\ UpdIdle /\ AuthIdle
    /\ OutIdle /\ CallIdle /\ StartIdle /\ FbIdle

NextSkill == FnSkill

SpecSkill == InitSkill /\ [][NextSkill]_vars

\* C28: every SkillDefinition returned by skill() has a timeout greater than 0 and
\* at most 300000 ms, 60000 when none is given; skill() raises, returning no
\* definition, for a timeout of 0 or less, a timeout above 300000, or a price the
\* price parser rejects.
C28_TimeoutInRange ==
    (fn.pc = "done" /\ fn.op = "skill") =>
        LET given == fn.options.timeout IN
        /\ fn.result.ok =>
              /\ fn.result.timeout.type = "number"
              /\ ~fn.result.timeout.nan
              /\ fn.result.timeout.v > 0
              /\ fn.result.timeout.v <= 300000
              /\ (given = Absent) => fn.result.timeout = Ms(60000)
        /\ (given # Absent /\ given[1].type = "number" /\ ~given[1].nan
              /\ (given[1].v <= 0 \/ given[1].v > 300000)) => ~fn.result.ok
        /\ ~parsePrice(fn.options.price).ok => ~fn.result.ok

(***************************************************************************)
(* The route table of serve() over the definitions skill() returns         *)
(***************************************************************************)
\* The timeouts of the definitions skill() returns for a good price.
ReturnedTimeouts ==
    { skill([price |-> <<"$", "0", ".", "0", "0", "1">>, timeout |-> t,
             groups |-> Absent]).timeout :
        t \in { o \in TimeoutOptions :
                  skill([price |-> <<"$", "0", ".", "0", "0", "1">>, timeout |-> o,
                         groups |-> Absent]).ok } }

\* serve.ts:49-73: a server over two skills returned by skill(), with the wallet
\* address it resolved.
InitRoutes ==
    /\ \E t \in ReturnedTimeouts, d \in {None, "Echoes input back"} :
          skills = [n \in {"echo", "upper"} |->
                      IF n = "echo"
                      THEN [amount |-> "0.001", timeout |-> t, description |-> d]
                      ELSE [amount |-> "0.005", timeout |-> Ms(1500), description |-> None]]
    /\ walletAddress \in Wallets
    /\ network = "eip155:8453"
    /\ onCall = None
    /\ onError = None
    /\ trackCalls = TRUE
    /\ nodeEnv = "development"
    /\ req = [i \in ReqIds |-> FreeReq]
    /\ FetchIdle /\ RegIdle /\ UpdIdle /\ AuthIdle
    /\ FnIdle /\ OutIdle /\ CallIdle /\ StartIdle /\ FbIdle

SpecRoutes == InitRoutes /\ [][NextServe]_vars

\* C29: the protected-route table has exactly one entry per skill, keyed
\* POST /<name>, with payTo the resolved wallet address, network the configured
\* network, price "$" followed by the parsed amount and maxTimeoutSeconds the
\* timeout in ms divided by 1000 and rounded up, between 1 and 300; what a route
\* advertises in a 402 answer is its entry of that table, for every request.
C29_RouteTable ==
    LET routes == buildProtectedRoutes(skills, walletAddress, network) IN
    /\ DOMAIN routes = { <<"POST", "/" \o n>> : n \in DOMAIN skills }
    /\ \A n \in DOMAIN skills :
          LET r == routes[<<"POST", "/" \o n>>] IN
          /\ r.payTo = walletAddress
          /\ r.network = network
          /\ r.price = "$" \o skills[n].amount
          /\ r.maxTimeoutSeconds = CeilDiv1000(skills[n].timeout)
          /\ ~r.maxTimeoutSeconds.nan
          /\ r.maxTimeoutSeconds.v >= 1
          /\ r.maxTimeoutSeconds.v <= 300
    /\ \A i \in DOMAIN req :
          (req[i].status = 402 /\ req[i].body.kind \in {"paymentRequired", "paymentRejected"}) =>
              req[i].body.accepts = routes[req[i].target]

(***************************************************************************)
(* Part 8.  What the SDK prints: the startup banner of serve() and the     *)
(* interactive setup init()                                                *)
(***************************************************************************)
\* A printed line: what it is about and the text interpolated into it.
Line(label, value) == [label |-> label, value |-> value]

\* The private keys generatePrivateKey() may return.
PrivateKeys == { Hex0x(64, "1"), Hex0x(64, "2") }

\* What the user may type for an API key and for a wallet address.
ApiKeyAnswers == { <<>>, <<"s", "k", "_", "1">>, <<"k", "e", "y">> }
AddressAnswers == { <<>>, Hex0x(40, "a"), Hex0x(10, "a"), Rep(40, "a") }

\* existingKey.slice(0, 11)
Prefix11(str) == IF Len(str) <= 11 THEN str ELSE SubSeq(str, 1, 11)

OutPrint(o, lines) == [o EXCEPT !.lines = @ \o lines]

\* serve.ts:56 and 186-213: serve() resolves the wallet to an address and, once
\* listening, prints the banner with that address.
OutBanner ==
    /\ out.pc = "serve"
    /\ LET w == resolveWalletToAddress(out.wallet, out.envAddress, out.envKey) IN
       out' = IF ~w.ok THEN [out EXCEPT !.pc = "threw"]
              ELSE [OutPrint(out, << Line("URL", <<>>), Line("Network", <<>>),
                                     Line("Wallet", w.address), Line("Skills", <<>>) >>)
                        EXCEPT !.pc = "listening"]
    /\ UNCHANGED restOfOut

\* unnamed/part_005:34-54  init: the banner, and the prefix of an API key found in the environment.
OutInitStart ==
    /\ out.pc = "init"
    /\ out' = IF out.existingKey # Absent
              THEN [OutPrint(out, << Line("Setup", <<>>),
                                     Line("Key prefix", Prefix11(out.existingKey[1])) >>)
                        EXCEPT !.pc = "ask overwrite"]
              ELSE [OutPrint(out, << Line("Setup", <<>>), Line("Steps", <<>>) >>)
                        EXCEPT !.pc = "ask api key"]
    /\ UNCHANGED restOfOut

\* unnamed/part_005:46-54  init: 'Do you want to set up a new key? (y/N)'
OutOverwrite ==
    /\ out.pc = "ask overwrite"
    /\ \E yes \in BOOLEAN :
          out' = IF yes THEN [OutPrint(out, << Line("Steps", <<>>) >>)
                                 EXCEPT !.pc = "ask api key"]
                 ELSE [OutPrint(out, << Line("Setup complete", <<>>) >>)
                           EXCEPT !.pc = "returned"]
    /\ UNCHANGED restOfOut

\* unnamed/part_005:70-85  init: 'Paste your API key here (sk_...)'
OutApiKey ==
    /\ out.pc = "ask api key"
    /\ \E apiKey \in ApiKeyAnswers :
          out' = IF apiKey = <<>>
                 THEN [OutPrint(out, << Line("No API key provided", <<>>) >>)
                           EXCEPT !.pc = "returned"]
                 ELSE IF Len(apiKey) < 3 \/ SubSeq(apiKey, 1, 3) # <<"s", "k", "_">>
                 THEN [OutPrint(out, << Line("Warning", <<>>) >>)
                           EXCEPT !.pc = "ask has wallet", !.apiKey = apiKey]
                 ELSE [out EXCEPT !.pc = "ask has wallet", !.apiKey = apiKey]
    /\ UNCHANGED restOfOut

\* unnamed/part_005:92-94  init: 'Do you have a wallet set up to receive payments? (y/N)'
OutHasWallet ==
    /\ out.pc = "ask has wallet"
    /\ \E yes \in BOOLEAN :
          out' = [out EXCEPT !.pc = IF yes THEN "ask address" ELSE "ask generate"]
    /\ UNCHANGED restOfOut

\* unnamed/part_005:172-198  init: the configuration is written to .env and the closing lines printed.
OutSaveEnv(o) ==
    [OutPrint(o, << Line("Configuration saved", <<>>), Line("Setup Complete", <<>>) >>)
        EXCEPT !.pc = "returned",
               !.env = [SKILLZ_API_KEY |-> o.apiKey,
                        SKILLZ_WALLET_ADDRESS |-> o.walletAddress,
                        SKILLZ_WALLET_KEY |-> o.generatedPrivateKey]]

\* unnamed/part_005:96-111  init: 'Enter your wallet address (0x...)'
OutAddress ==
    /\ out.pc = "ask address"
    /\ \E inputAddress \in AddressAnswers :
          out' = IF inputAddress = <<>>
                 THEN [OutPrint(out, << Line("No wallet address provided", <<>>) >>)
                           EXCEPT !.pc = "returned"]
                 ELSE IF ~StartsWith0x(inputAddress) \/ Len(inputAddress) # 42
                 THEN OutSaveEnv([OutPrint(out, << Line("Warning", <<>>) >>)
                                     EXCEPT !.walletAddress = inputAddress])
                 ELSE OutSaveEnv([out EXCEPT !.walletAddress = inputAddress])
    /\ UNCHANGED restOfOut

\* unnamed/part_005:113-141  init: 'Would you like to generate a new wallet? (y/N)'. On yes a private
\* key is generated and printed with the address it derives, and the user is asked
\* to press Enter.
OutGenerate ==
    /\ out.pc = "ask generate"
    /\ \E yes \in BOOLEAN, key \in PrivateKeys :
          out' = IF ~yes
                 THEN [OutPrint(out, << Line("You need a wallet", <<>>) >>)
                           EXCEPT !.pc = "returned"]
                 ELSE [OutPrint(out, << Line("SAVE YOUR PRIVATE KEY NOW", <<>>),
                                        Line("Private Key", key),
                                        Line("Wallet Address", privateKeyToAddress(key)) >>)
                           EXCEPT !.pc = "press enter",
                                  !.generatedPrivateKey = <<key>>,
                                  !.walletAddress = privateKeyToAddress(key)]
    /\ UNCHANGED restOfOut

\* unnamed/part_005:141  init: 'Press Enter once you have saved your private key...'
OutEnter ==
    /\ out.pc = "press enter"
    /\ out' = OutSaveEnv(out)
    /\ UNCHANGED restOfOut

InitOutput ==
    /\ \/ \E wallet, envAddress, envKey \in WalletSources :
             out = [pc |-> "serve", wallet |-> wallet, envAddress |-> envAddress,
                    envKey |-> envKey, lines |-> <<>>]
       \/ \E existingKey \in {Absent, << <<"s", "k", "_", "l", "i", "v", "e", "_", "0", "1", "2", "3">> >>} :
             out = [pc |-> "init", existingKey |-> existingKey, apiKey |-> <<>>,
                    walletAddress |-> <<>>, generatedPrivateKey |-> Absent,
                    env |-> NoBody, lines |-> <<>>]
    /\ ServeIdle /\ FetchIdle /\ RegIdle /\ UpdIdle /\ AuthIdle
    /\ FnIdle /\ CallIdle /\ StartIdle /\ FbIdle

NextOutput ==
    \/ OutBanner
    \/ OutInitStart
    \/ OutOverwrite
    \/ OutApiKey
    \/ OutHasWallet
    \/ OutAddress
    \/ OutGenerate
    \/ OutEnter

SpecOutput == InitOutput /\ [][NextOutput]_vars

\* The string holds the other as a substring.
Contains(str, sub) ==
    \E o \in 0..(Len(str) - Len(sub)) : SubSeq(str, o + 1, o + Len(sub)) = sub

\* The private keys a run has in hand: the ones given to serve() as a wallet, the
\* one init() generated.
KeysInHand ==
    IF out.pc \in {"serve", "threw", "listening"}
    THEN { src[1] : src \in { x \in {out.wallet, out.envAddress, out.envKey} :
                                 x # Absent /\ Len(x[1]) = 66 } }
    ELSE { out.generatedPrivateKey[k] : k \in DOMAIN out.generatedPrivateKey }

\* C26: no line written to user-facing output by the startup banner of serve() or by
\* init() contains a wallet private key in full.
C26_NoPrivateKeyPrinted ==
    (out.pc # "idle") =>
        \A k \in DOMAIN out.lines : \A key \in KeysInHand :
            ~Contains(out.lines[k].value, key)

(***************************************************************************)
(* Part 9.  SkillzMarket.call() of src/client.ts, and the usage reports    *)
(* of both sides                                                           *)
(***************************************************************************)
\* What paymentFetch resolves to: whether the response is ok, its PAYMENT-RESPONSE
\* header (absent, a settlement, the JSON null, not base64 JSON) and its body.
CallResponses ==
    { [ok |-> ok, header |-> h, body |-> b] :
        ok \in BOOLEAN, h \in {None, "settlement", "null", "garbage"},
        b \in {"result-1", "result-2", "not json"} }

ClThrew(c, err) == [c EXCEPT !.pc = "threw", !.error = err]

\* client.ts:77-82: call() needs a wallet; it then asks the registry for the skill.
ClStart ==
    /\ cl.pc = "called"
    /\ cl' = IF ~cl.wallet THEN ClThrew(cl, "Wallet required for calling paid skills")
             ELSE [cl EXCEPT !.pc = "info"]
    /\ UNCHANGED restOfCall

\* client.ts:82-86 and discovery.ts:18-22: the skill is found or not, active or not.
ClInfo ==
    /\ cl.pc = "info"
    /\ \E found \in {"active", "inactive", "not found"} :
          cl' = IF found = "not found" THEN ClThrew(cl, "Skill not found")
                ELSE IF found = "inactive" THEN ClThrew(cl, "Skill is not active")
                ELSE [cl EXCEPT !.pc = "paying"]
    /\ UNCHANGED restOfCall

\* client.ts:88-117: the response of paymentFetch. A response that is not ok raises.
\* With a PAYMENT-RESPONSE header that parses to a settlement the usage report is
\* sent and not awaited; a header that does not parse, or parses to null, is ignored.
ClResponse ==
    /\ cl.pc = "paying"
    /\ \E resp \in CallResponses :
          cl' = IF ~resp.ok THEN ClThrew([cl EXCEPT !.response = resp], "Skill call failed")
                ELSE [cl EXCEPT !.pc = "reading", !.response = resp,
                                !.analytics = IF resp.header = "settlement"
                                              THEN "pending" ELSE @]
    /\ UNCHANGED restOfCall

\* client.ts:119: return response.json()
ClJson ==
    /\ cl.pc = "reading"
    /\ cl' = IF cl.response.body = "not json" THEN ClThrew(cl, "SyntaxError")
             ELSE [cl EXCEPT !.pc = "returned", !.result = cl.response.body]
    /\ UNCHANGED restOfCall

\* client.ts:104-113: the usage report settles; .catch(() => {}) drops its failure.
ClAnalytics ==
    /\ cl.pc \in {"reading", "returned", "threw"}
    /\ cl.analytics = "pending"
    /\ \E outcome \in {"ok", "failed"} : cl' = [cl EXCEPT !.analytics = outcome]
    /\ UNCHANGED restOfCall

NextCall == ClStart \/ ClInfo \/ ClResponse \/ ClJson \/ ClAnalytics

\* Either a skill server with call tracking serves requests, or a client calls a
\* skill.
InitTracked ==
    /\ skills = [n \in {"echo"} |-> SkillDef("0.001")]
    /\ walletAddress = "0xAAA"
    /\ network = "eip155:8453"
    /\ onCall = None
    /\ onError = None
    /\ trackCalls \in BOOLEAN
    /\ nodeEnv = "development"
    /\ req = [i \in ReqIds |-> FreeReq]
    /\ \/ CallIdle
       \/ /\ trackCalls
          /\ \E wallet \in BOOLEAN :
                cl = [pc |-> "called", wallet |-> wallet, response |-> NoBody,
                      analytics |-> None, result |-> None, error |-> None]
    /\ FetchIdle /\ RegIdle /\ UpdIdle /\ AuthIdle
    /\ FnIdle /\ OutIdle /\ StartIdle /\ FbIdle

NextTracked ==
    \/ cl.pc = "idle" /\ NextServe
    \/ cl.pc = "idle" /\ \E i \in ReqIds : AnalyticsSettle(i)
    \/ NextCall

SpecTracked == InitTracked /\ [][NextTracked]_vars

\* Whatever has become of the usage report, the answer of the skill's route handler
\* is the success envelope it built, and a call that returned a value returned the
\* body of the skill's response.
C30_ResultStands ==
    /\ \A i \in DOMAIN req :
          (req[i].analytics # None) =>
              \/ req[i].status = 200 /\ req[i].body.kind = "result"
              \/ req[i].status = 402 /\ req[i].body.kind = "settlementFailed"
    /\ (cl.pc = "returned") => cl.result = cl.response.body
    /\ (cl.pc # "idle" /\ cl.analytics # None) =>
          cl.pc \in {"reading", "returned", "threw"} /\ cl.response.ok

\* Neither side waits for the usage report: with the report still pending the
\* payment can be settled, the response sent and the body of the skill's response
\* read.
C30_NoWaiting ==
    /\ \A i \in DOMAIN req :
          (req[i].analytics = "pending") =>
              /\ req[i].pc \in {"settling", "done"}
              /\ req[i].pc = "settling" => ENABLED Settle(i)
              /\ req[i].pc = "done" => ENABLED Retire(i)
    /\ (cl.pc # "idle" /\ cl.analytics = "pending" /\ cl.pc = "reading") => ENABLED ClJson

\* The step in which a usage report settles changes nothing of the response or of
\* the progress of the request or call.
C30_ReportStep ==
    /\ \A i \in DOMAIN req :
          (req[i].analytics = "pending" /\ req'[i].analytics \in {"ok", "failed"}) =>
              /\ req'[i].pc = req[i].pc
              /\ req'[i].status = req[i].status
              /\ req'[i].body = req[i].body
              /\ req'[i].settled = req[i].settled
    /\ (cl.pc # "idle" /\ cl.analytics = "pending" /\ cl'.analytics \in {"ok", "failed"}) =>
          /\ cl'.pc = cl.pc
          /\ cl'.result = cl.result
          /\ cl'.error = cl.error

\* C30: usage-analytics reporting never affects the primary result: whether the
\* POST /analytics/usage request succeeds, fails or never completes, the skill
\* server's response and the value returned by SkillzMarket.call() are the same,
\* and neither waits for the analytics request to finish.
C30_AnalyticsNeverAffectsResult ==
    /\ []C30_ResultStands
    /\ []C30_NoWaiting
    /\ [][C30_ReportStep]_vars

\* A paid request was answered 200 although its usage report had failed.
C30_Witness ==
    \E i \in ReqIds :
        /\ req[i].pc = "done"
        /\ req[i].status = 200
        /\ req[i].settled
        /\ req[i].analytics = "failed"

\* A call returned the skill's result while its usage report was still pending.
C30_WitnessCall ==
    /\ cl.pc = "returned"
    /\ cl.result = "result-2"
    /\ cl.analytics = "pending"
(***************************************************************************)
(* Part 10.  Further claims about register()                               *)
(***************************************************************************)
\* C38: in registerSkillWithRetry the body of each response is read at most once per
\* attempt, on every path (2xx, 429, other 4xx, 5xx).
C38_BodyReadOnce == \A i \in DOMAIN sk : sk[i].reads <= 1


\* register.ts:306-329 and 431-495 under a scheduler that lets every pending
\* registry request and every backoff sleep come to its end.
SpecRegisterFair == SpecRegister /\ WF_vars(NextRegister)

\* The POST /skills requests sent so far, over all skills.
TotalPosts ==
    LET sum[k \in 0..Len(sk)] == IF k = 0 THEN 0 ELSE sum[k - 1] + sk[k].posts
    IN  sum[Len(sk)]

\* register() has returned or raised, and no worker has anything left to do.
RegSettled ==
    /\ reg.pc \in {"resolved", "rejected"}
    /\ \A w \in DOMAIN workers : workers[w].pc \in {"exit", "threw"}

\* C37: register() terminates whenever every registry request and every backoff
\* sleep terminates, and the number of POST /skills requests it has sent never
\* exceeds 3 times the number of skills.
C37_TerminatesWithinBudget ==
    /\ [](TotalPosts <= MAX_RETRIES * reg.n)
    /\ (reg.pc = "called") ~> RegSettled

\* Every skill of a batch used all of its attempts, and register() has returned.
C37_Witness ==
    /\ reg.pc = "resolved"
    /\ reg.n = MaxSkills
    /\ TotalPosts = MAX_RETRIES * reg.n


\* Worker w is in the backoff sleep of its skill's retry.
Asleep(w) == workers[w].pc = "sleep"

\* While w sleeps, worker v receives a final answer for its skill: the skill's result
\* is stored and, when skills are left, v starts the next one.
CompletesBeside(w, v) ==
    /\ WRespond(v)
    /\ workers'[w] = workers[w]
    /\ results'[workers[v].i] # Hole
    /\ index < reg.n => (index' = index + 1 /\ sk'[index + 1].posts = 1)

\* C31: with a concurrency limit of 2 or more, while one worker is in the backoff
\* sleep of skill A's retry, another worker can start and complete the registration
\* of a skill B: the retry occupies one worker slot and delays nothing else.
C31_RetryOccupiesOneSlot ==
    (reg.pc = "running" /\ Concurrency >= 2 /\ reg.n >= 2 /\ ~HardFailure) =>
        /\ Len(workers) >= 2
        /\ \A w \in DOMAIN workers :
              Asleep(w) =>
                 \A v \in DOMAIN workers \ {w} :
                    /\ workers[v].i # workers[w].i
                    /\ index < reg.n => workers[v].pc \in {"post", "sleep"}
                    /\ workers[v].pc = "post" => ENABLED CompletesBeside(w, v)
                    /\ workers[v].pc = "sleep" => ENABLED WWake(v)

\* Skill 1 is in its first backoff sleep while the third skill, started after the two
\* workers had taken skills 1 and 2, is already registered.
C31_Witness ==
    /\ reg.pc = "running"
    /\ reg.limit = <<2>>
    /\ reg.n = 3
    /\ \E w \in DOMAIN workers :
          /\ Asleep(w)
          /\ workers[w].i = 1
          /\ workers[w].attempt = 0
    /\ results[3] # Hole
    /\ results[3].success


\* The workers that hold skill j.
Holders(j) == { w \in DOMAIN workers : workers[w].i = j }

\* C32: with a concurrency limit of 1 or more, the shared index counter hands each
\* skill to exactly one worker: no skill is registered by two workers and, when
\* register() returns, none has been skipped, under every interleaving of the
\* workers.
C32_HandedOutOnce ==
    [](Concurrency >= 1 /\ PastValidation /\ reg.pc # "called" =>
          /\ index <= reg.n
          /\ \A j \in 1..reg.n :
                /\ Cardinality(Holders(j)) <= 1
                /\ j <= index <=> sk[j].posts >= 1
                /\ j <= index => (results[j] # Hole \/ Cardinality(Holders(j)) = 1)
                /\ j > index => results[j] = Hole
          /\ reg.pc = "resolved" =>
                /\ index = reg.n
                /\ \A j \in 1..reg.n : results[j] # Hole /\ results[j].name = j)
    /\ [][Concurrency >= 1 =>
            \A j \in DOMAIN sk :
               sk'[j].posts # sk[j].posts =>
                  /\ sk'[j].posts = sk[j].posts + 1
                  /\ \E w \in DOMAIN workers' :
                        /\ workers'[w].i = j
                        /\ workers'[w].pc = "post"
                        /\ \A v \in DOMAIN workers' : workers'[v].i = j => v = w
                  /\ sk[j].posts = 0 => (index < j /\ j <= index')]_vars

\* Two workers shared three skills: worker 1 took the third after the second worker
\* had taken the second, and register() has returned.
C32_Witness ==
    /\ reg.pc = "resolved"
    /\ reg.limit = <<2>>
    /\ reg.n = 3
    /\ index = 3
    /\ workers[1].i = 3
    /\ workers[2].i = 2
    /\ \A j \in 1..3 : results[j] # Hole


(***************************************************************************)
(* The groups sent to the registry.                                        *)
(***************************************************************************)
\* RegistrationOptions.groups (types.ts:114-118) is passed to register() as it was
\* written: absent, a name, a blank name, or both.
GlobalGroupOptions == { <<>>, << <<"g">> >>, << <<" ">> >>, << <<"g">>, <<" ">> >> }

\* The groups of a skill are those skill() let through (skill.ts:42-52).
SkillGroupOptions == { gs \in { <<>>, << <<" ", "g">> >>, << <<"h">> >> } :
                          groupsError(<<gs>>) = None }

\* register.ts:386 and 401: the groups list in the payload of skill i.
PayloadGroups(i) == mergeGroups(reg.own[i], reg.groups)

InitGroups ==
    /\ \E n \in 1..MaxSkills, mode \in Modes, first \in SkillGroupOptions :
       \E global \in GlobalGroupOptions :
          RegCalled(n, mode, <<1>>, TRUE,
                    [i \in 1..n |-> IF i = 1 THEN first ELSE <<>>], global, FewAnswers)
    /\ ServeIdle
    /\ FetchIdle
    /\ UpdIdle
    /\ AuthIdle
    /\ FnIdle
    /\ OutIdle
    /\ CallIdle /\ StartIdle /\ FbIdle

SpecGroups == InitGroups /\ [][NextRegister]_vars

\* C36: every payload register() sends carries a groups list that is non-empty and
\* contains only non-empty strings.
C36_PayloadGroupsNonEmpty ==
    \A i \in DOMAIN sk :
        sk[i].posts >= 1 =>
            /\ PayloadGroups(i) # <<>>
            /\ \A k \in DOMAIN PayloadGroups(i) : PayloadGroups(i)[k] # <<>>


(***************************************************************************)
(* Part 11.  Usage reports of the skill server                             *)
(***************************************************************************)
\* C33: when call tracking is enabled and the payment of a call was settled, the
\* usage report of the call carries the settlement's transaction reference.
C33_ReportCarriesSettlement ==
    \A i \in ReqIds :
        (trackCalls /\ req[i].settled /\ req[i].reports >= 1) =>
            req[i].report.paymentTxHash # None

\* A request whose handler returned: it was answered 200 at that point.
HandlerSucceeded(r) == r.body # NoBody /\ r.body.kind \in {"result", "settlementFailed"}

\* At most one usage report per request, and none unless the handler returned.
ReportOnlyAfterSuccess ==
    \A i \in ReqIds :
        /\ req[i].reports <= 1
        /\ req[i].reports = 1 => HandlerSucceeded(req[i])

RegistrationOptions ==
    {Absent} \cup
    { <<[enabled |-> e, onError |-> m]>> :
         e \in {Absent, <<TRUE>>, <<FALSE>>}, m \in {Absent} \cup { <<x>> : x \in Modes } }

\* ServeOptions.apiKey and process.env.SKILLZ_API_KEY: not set, or a string.
ApiKeyOptions == {Absent, <<"">>, <<"sk_live">>}
EnvApiKeys == {Absent, <<"sk_env">>}

\* serve.ts:59  apiKey ?? process.env.SKILLZ_API_KEY ?? ''
resolvedApiKey(apiKey, envKey) == Coalesce(apiKey, Coalesce(envKey, <<"">>))[1]

\* The test of serve.ts:216 without its look at `enabled`.
registrationWanted_IgnoresEnabled(registerOpts) == registerOpts # Absent

\* serve.ts:216  registerOpts && registerOpts.enabled !== false
registrationWanted(registerOpts) ==
    registerOpts # Absent /\ registerOpts[1].enabled # <<FALSE>>

\* What the startup of serve() leaves alone, besides srv and reg.
StartFrame ==
    UNCHANGED <<serveVars, fetchVars, index, results, workers, sk, updVars, authVars,
                fnVars, outVars, callVars, fb>>

\* serve.ts:49-75 and 186-191: the skills map is checked, the wallet resolved, the
\* app built and honoServe() called. serve() raises before that for an empty map or
\* a wallet that does not resolve; otherwise the server listens.
SrvStart ==
    /\ srv.pc = "called"
    /\ LET resolved == resolveWalletToAddress(srv.wallet, Absent, Absent) IN
       srv' = IF DOMAIN skills = {}
              THEN [srv EXCEPT !.pc = "threw", !.error = "No skills provided"]
              ELSE IF ~resolved.ok
              THEN [srv EXCEPT !.pc = "threw", !.error = resolved.error]
              ELSE [srv EXCEPT !.pc = "listening", !.listened = TRUE]
    /\ UNCHANGED reg
    /\ StartFrame

\* register.ts:352-364 as serve.ts:225-226 calls it: buildRegisterOptions
\* (register.ts:550-564) passes the resolved key, onError (warn when absent) and the
\* groups, and no batch option.
AutoRegister(registerOpts) ==
    LET n == Cardinality(DOMAIN skills) IN
    [pc |-> "called", n |-> n,
     mode |-> IF registerOpts[1].onError = Absent THEN "warn"
              ELSE registerOpts[1].onError[1],
     limit |-> Absent, apiKey |-> TRUE, own |-> [i \in 1..n |-> <<>>],
     groups |-> << <<"g">> >>, registry |-> FewAnswers, returned |-> <<>>,
     apiUrl |-> DEFAULT_API_URL]

\* serve.ts:191-226: the listening callback prints the banner and, when registration
\* is configured and an API key is resolved, calls register() and awaits it.
SrvListening ==
    /\ srv.pc = "listening"
    /\ IF registrationWanted(srv.register)
          /\ resolvedApiKey(srv.apiKey, srv.envKey) # ""
       THEN /\ srv' = [srv EXCEPT !.pc = "registering"]
            /\ reg' = AutoRegister(srv.register)
       ELSE /\ srv' = [srv EXCEPT !.pc = "up"]
            /\ UNCHANGED reg
    /\ StartFrame

\* serve.ts:226-250: register() has returned and its results are printed; or it has
\* raised, and the promise of the async callback, which honoServe() does not await,
\* is rejected with nobody to handle it: the process ends (the default of Node.js
\* since version 15) or goes on with a warning (older versions, or a process with a
\* handler for unhandled rejections).
SrvRegistered ==
    /\ srv.pc = "registering"
    /\ \/ /\ reg.pc = "resolved"
          /\ srv' = [srv EXCEPT !.pc = "up"]
       \/ /\ reg.pc = "rejected"
          /\ \E exits \in BOOLEAN :
                srv' = [srv EXCEPT !.pc = IF exits THEN "crashed" ELSE "up"]
    /\ UNCHANGED reg
    /\ StartFrame

\* The server is listening and its process is alive.
Running == srv.pc \in {"listening", "registering", "up"}

\* A call of serve(skills, options).
SrvCalled(wallet, apiKey, envKey, registerOpts) ==
    srv = [pc |-> "called", wallet |-> wallet, apiKey |-> apiKey, envKey |-> envKey,
           register |-> registerOpts, listened |-> FALSE, error |-> None]

InitStartup ==
    /\ skills \in { <<>>, [n \in {"echo"} |-> SkillDef("0.001")] }
    /\ walletAddress = "0xAAA"
    /\ network = "eip155:8453"
    /\ onCall = None
    /\ onError = None
    /\ trackCalls = FALSE
    /\ nodeEnv = "development"
    /\ req = [i \in ReqIds |-> FreeReq]
    /\ \E wallet \in {Absent, <<Hex0x(40, "a")>>, <<Rep(40, "a")>>}, apiKey \in ApiKeyOptions :
       \E envKey \in EnvApiKeys, registerOpts \in RegistrationOptions :
          SrvCalled(wallet, apiKey, envKey, registerOpts)
    /\ FetchIdle /\ RegIdle /\ UpdIdle /\ AuthIdle
    /\ FnIdle /\ OutIdle /\ CallIdle /\ FbIdle

\* The server serves one request at a time.
ServeOne == NextServe /\ \A j \in ReqIds \ {1} : req'[j] = req[j]

\* Requests are served while the process runs; the workers of register() go on as
\* long as it does.
NextStartup ==
    \/ SrvStart
    \/ SrvListening
    \/ SrvRegistered
    \/ Running /\ ServeOne
    \/ Running /\ NextRegister

SpecStartup == InitStartup /\ [][NextStartup]_vars


\* register() has been called by serve().
RegistrationStarted == reg.pc # "idle"

\* serve() was given an API key that is not the empty string, or none and the
\* environment holds one.
KeyInHand ==
    \/ srv.apiKey \notin {Absent, <<"">>}
    \/ srv.apiKey = Absent /\ srv.envKey \notin {Absent, <<"">>}

\* The wallet option is an address or a private key.
WalletResolves ==
    /\ srv.wallet # Absent
    /\ StartsWith0x(srv.wallet[1])
    /\ Len(srv.wallet[1]) \in {42, 66}

\* C35: serve() rejects an empty skills map and an unresolvable wallet before
\* listening; auto-registration starts only after the server listens, and only when
\* a register option is given, enabled is not false and an API key is resolved;
\* otherwise no POST /skills is ever made.
C35_StartupOrder ==
    /\ []((srv.pc # "idle" /\ (DOMAIN skills = {} \/ ~WalletResolves)) =>
             /\ srv.pc \in {"called", "threw"}
             /\ ~srv.listened
             /\ req = [i \in ReqIds |-> FreeReq]
             /\ ~RegistrationStarted)
    /\ [](srv.pc = "threw" => ~srv.listened)
    /\ [](RegistrationStarted =>
             /\ srv.listened
             /\ srv.register # Absent
             /\ srv.register[1].enabled # <<FALSE>>
             /\ KeyInHand)
    /\ [](~RegistrationStarted => TotalPosts = 0)
    /\ [][(~RegistrationStarted /\ RegistrationStarted') => srv.pc = "listening"]_vars

\* serve() was given a register option without `enabled` and found its key in the
\* environment: the skill has been registered after the server began to listen.
C35_Witness ==
    /\ srv.pc = "up"
    /\ srv.apiKey = Absent
    /\ srv.register # Absent
    /\ srv.register[1].enabled = Absent
    /\ reg.pc = "resolved"
    /\ TotalPosts >= 1

\* serve() raised for an empty skills map: nothing listens.
C35_WitnessRejected ==
    /\ srv.pc = "threw"
    /\ DOMAIN skills = {}
    /\ srv.error = "No skills provided"


\* The auto-registration has failed: register() raised, or returned a failed result.
AutoRegistrationFailed ==
    \/ reg.pc = "rejected"
    \/ reg.pc = "resolved" /\ \E i \in DOMAIN reg.returned : ~reg.returned[i].success

\* C40: a failure of the auto-registration started by serve(), in any error mode
\* including 'throw', leaves the server running: the skill endpoints and /health
\* keep answering.
C40_ServerSurvivesRegistration ==
    (srv.pc # "idle" /\ srv.listened /\ AutoRegistrationFailed) => Running


(***************************************************************************)
(* Part 13.  SkillzMarket.feedback()                                       *)
(***************************************************************************)
\* The feedback() calls running on one client.
Callers == {1, 2}

\* What feedback() leaves alone.
FbFrame ==
    UNCHANGED <<serveVars, fetchVars, regVars, updVars, authVars, fnVars, outVars,
                callVars, srv>>

\* The caller's call ends with an exception.
FbThrew(c, message) ==
    fb' = [fb EXCEPT !.callers[c].pc = "threw", !.callers[c].error = message]

\* client.ts:171-178: POST /reviews is sent with `Bearer ${this.authToken}`, the
\* token the client holds at that moment.
FbPostReview(f, c) ==
    [f EXCEPT !.callers[c].pc = "review",
              !.reviews = Append(@, [caller |-> c, token |-> f.authToken])]

\* client.ts:167-170 and 123-136: feedback() is called. With a token in hand the
\* review is posted; without one authenticate() is entered, which raises without a
\* wallet and otherwise sends the challenge request.
FbCall(c) ==
    /\ fb.pc = "running"
    /\ fb.callers[c].pc = "idle"
    /\ IF fb.authToken # None
       THEN fb' = FbPostReview(fb, c)
       ELSE IF ~fb.wallet
       THEN FbThrew(c, "Wallet required for authentication")
       ELSE fb' = [fb EXCEPT !.callers[c].pc = "challenge", !.challenges = @ + 1]
    /\ FbFrame

\* client.ts:138-155: the answer to the caller's challenge request; the message is
\* signed and the verify request sent.
FbChallenge(c) ==
    /\ fb.pc = "running"
    /\ fb.callers[c].pc = "challenge"
    /\ \E ok \in BOOLEAN :
          IF ok
          THEN fb' = [fb EXCEPT !.callers[c].pc = "verify", !.verifies = @ + 1]
          ELSE FbThrew(c, "Failed to get auth challenge")
    /\ FbFrame

\* client.ts:157-163: the answer to the caller's verify request; a successful one
\* yields a fresh token, which is stored in this.authToken.
FbVerify(c) ==
    /\ fb.pc = "running"
    /\ fb.callers[c].pc = "verify"
    /\ \E ok \in BOOLEAN :
          IF ok
          THEN LET token == <<"jwt", Cardinality(fb.issued) + 1>> IN
               fb' = [fb EXCEPT !.callers[c].pc = "authenticated",
                                !.authToken = token,
                                !.issued = @ \cup {token}]
          ELSE FbThrew(c, "Authentication failed")
    /\ FbFrame

\* client.ts:169-178: authenticate() has returned to feedback(), which posts the
\* review.
FbResume(c) ==
    /\ fb.pc = "running"
    /\ fb.callers[c].pc = "authenticated"
    /\ fb' = FbPostReview(fb, c)
    /\ FbFrame

\* client.ts:180-182: the answer to POST /reviews.
FbReviewed(c) ==
    /\ fb.pc = "running"
    /\ fb.callers[c].pc = "review"
    /\ \E ok \in BOOLEAN :
          IF ok
          THEN fb' = [fb EXCEPT !.callers[c].pc = "returned"]
          ELSE FbThrew(c, "Failed to submit feedback")
    /\ FbFrame

\* A client without an auth token, with or without a wallet.
InitFeedback ==
    /\ \E wallet \in BOOLEAN :
          fb = [pc |-> "running", wallet |-> wallet, authToken |-> None,
                callers |-> [c \in Callers |-> [pc |-> "idle", error |-> None]],
                challenges |-> 0, verifies |-> 0, issued |-> {}, reviews |-> <<>>]
    /\ ServeIdle
    /\ FetchIdle /\ RegIdle /\ UpdIdle /\ AuthIdle
    /\ FnIdle /\ OutIdle /\ CallIdle /\ StartIdle

NextFeedback ==
    \E c \in Callers :
        \/ FbCall(c)
        \/ FbChallenge(c)
        \/ FbVerify(c)
        \/ FbResume(c)
        \/ FbReviewed(c)

SpecFeedback == InitFeedback /\ [][NextFeedback]_vars

\* C39: two feedback() calls started concurrently on a client with no auth token
\* perform the challenge/verify exchange at most once in total, and each POST
\* /reviews carries a token obtained from a successful verify.
C39_SingleAuthentication ==
    fb.pc = "running" =>
        /\ fb.challenges <= 1
        /\ fb.verifies <= 1
        /\ \A k \in DOMAIN fb.reviews : fb.reviews[k].token \in fb.issued

====
